---- MODULE Spec2Model ----
(***************************************************************************)
(* Verification model of weekly_slack_recon: the thread status classifier  *)
(* (logic.py), the follow-up policy of build_candidate_submissions         *)
(* (logic.py), the calendar ordering of CalendarClient.search_events       *)
(* (calendar_client.py), the keyword synthesizer and the Claude-powered    *)
(* synthesizer (status_synthesizer.py), the nudge check (nudge.py), the     *)
(* thread fetch of slack_client.py and the background jobs of the          *)
(* dashboard server (serve_dashboard.py).                                  *)
(*                                                                         *)
(* Time is counted in ticks, TicksPerDay ticks to a day; a Slack ts is the *)
(* tick it was posted at.  A text is a sequence of atoms: words and the    *)
(* blank SP, so that strip(), lower(), " ".join() and substring search     *)
(* are computed, not assumed.                                              *)
(***************************************************************************)
EXTENDS Integers, Sequences, FiniteSets, TLC

VARIABLES
    submission_msg,    \* the parent SlackMessage of the thread
    thread_messages,   \* the list handed to infer_status_for_submission
    result,            \* last return value of infer_status_for_submission
    cfg,               \* Config: unclear_followup_days, inactivity_days
    now,               \* the clock reading of the scan
    sub,               \* the CandidateSubmission built by the scan
    calendar_events,   \* list[CalendarEvent] handed to the synthesizer
    email_signals,     \* list[EmailSignal] handed to the synthesizer
    slack_thread,      \* list[dict] slack_thread_messages of the synthesizer
    ashby_record,      \* Optional[dict]
    synthesis,         \* last StatusSynthesis returned
    step,              \* where run_status_check is in its loop body
    response,          \* what the reasoning backend answered to messages.create
    threads,           \* the submission threads of the channel, with the nudges posted
    tracker,           \* NudgeTracker._nudged, as saved to the tracker file
    nudge_results,     \* the dict returned by the last run_nudge_check
    generation_status, \* serve_dashboard.generation_status
    enrichment_status, \* serve_dashboard.enrichment_status
    jobs,              \* the background threads started by the server, in order
    handler,           \* the request the server's only handler thread is serving
    requests,          \* requests accepted so far
    fetch              \* the locals of one call of SlackAPI.get_thread_messages

vars == <<submission_msg, thread_messages, result, cfg, now, sub,
          calendar_events, email_signals, slack_thread,
          ashby_record, synthesis, step, response,
          threads, tracker, nudge_results,
          generation_status, enrichment_status, jobs, handler, requests, fetch>>

classifierVars == <<submission_msg, thread_messages, result>>
scanVars == <<cfg, now, sub>>
synthVars == <<calendar_events, email_signals, slack_thread,
               ashby_record, synthesis, step>>
backendVars == <<response>>
nudgeVars == <<threads, tracker, nudge_results>>
dashVars == <<generation_status, enrichment_status, jobs, handler, requests>>
fetchVars == <<fetch>>

\* Python's None where a string is expected, and the values of the variables
\* before the operation that sets them has run.
None == "None"
NoResult == [status |-> None]
NoSubmission == [status |-> None]
NoSynthesis == [status_source |-> None]
NoRecord == [absent |-> TRUE]
NoResponse == [kind |-> None]
NoRun == [dry_run |-> None]
NoConfig == [unclear_followup_days |-> 0, inactivity_days |-> 0]

\* The module globals of serve_dashboard.py as the import leaves them
\* (serve_dashboard.py:40-58), no request accepted, no thread started.
StatusIdle == [running |-> FALSE, error |-> None, completed |-> FALSE]
HandlerIdle == [pc |-> "idle", route |-> None, code |-> 0]

DashIdle ==
    /\ generation_status = StatusIdle
    /\ enrichment_status = StatusIdle
    /\ jobs = <<>>
    /\ handler = HandlerIdle
    /\ requests = 0

\* No thread fetch is under way.
NoFetch == [pc |-> "idle", max_retries |-> 0, attempt |-> 0, api_log |-> <<>>,
            result |-> <<>>, exception |-> None]

FetchIdle == fetch = NoFetch

\* No nudge check has run and no thread is looked at.
NudgeIdle ==
    /\ threads = <<>> /\ tracker = {} /\ nudge_results = NoRun

(***************************************************************************)
(* Bounds of the model                                                     *)
(***************************************************************************)
MaxThreadEvents == 4   \* replies and reactions posted to a thread, together
TicksPerDay == 2       \* clock resolution
MaxDays == 2           \* largest day threshold of a Config
MaxNow == 9            \* last clock reading of a scan
MaxEvidence == 3       \* chat replies, emails and calendar items of one candidate
MaxBackendEvidence == 2  \* the same, for a candidate sent to the reasoning backend
MaxThreads == 2        \* submission threads of the channel
MaxNudges == 2         \* nudge replies posted to one thread
MaxRequests == 3       \* requests the dashboard server accepts
MaxRetries == 4        \* largest max_retries of a thread fetch

ParentTimes == {0, 1}
ReplyTimes == 0 .. 2
ScanReplyTimes == 0 .. 4
NowTimes == 4 .. MaxNow

ReactionNames == {"no_entry", "no_entry_sign", "white_check_mark", "thumbsup"}

SP == " "

\* Texts of the classifier's messages: empty, a closed keyword
\* (CLOSED_KEYWORDS_HARD), an in-process keyword (IN_PROCESS_KEYWORDS).
MsgTexts == {<<>>, <<"declined">>, <<"onsite">>}

(***************************************************************************)
(* status_rules.py                                                         *)
(***************************************************************************)
CLOSED == "CLOSED"
IN_PROCESS_EXPLICIT == "IN PROCESS - explicit"
IN_PROCESS_UNCLEAR == "IN PROCESS - unclear"

(***************************************************************************)
(* Generic sequence helpers                                                *)
(***************************************************************************)
RECURSIVE SeqsUpTo(_, _)
SeqsUpTo(S, n) ==
    IF n = 0 THEN {<<>>}
    ELSE LET shorter == SeqsUpTo(S, n - 1)
         IN  shorter \cup {Append(s, x) : s \in {t \in shorter : Len(t) = n - 1}, x \in S}

Max(a, b) == IF a >= b THEN a ELSE b

\* Index of the first element of s that is in S, 0 if none.
FirstIndex(s, S) ==
    IF \E i \in 1 .. Len(s) : s[i] \in S
    THEN CHOOSE i \in 1 .. Len(s) : s[i] \in S /\ \A j \in 1 .. (i - 1) : s[j] \notin S
    ELSE 0

\* list.sort(key=...): a stable ascending sort of a list of <<key, item>>
\* pairs; a key is a tuple of two integers, compared as Python compares tuples.
KeyLess(a, b) == a[1] < b[1] \/ (a[1] = b[1] /\ a[2] < b[2])

RECURSIVE InsertSorted(_, _)
InsertSorted(s, e) ==
    IF s = <<>> THEN <<e>>
    ELSE IF KeyLess(e[1], s[Len(s)][1])
         THEN Append(InsertSorted(SubSeq(s, 1, Len(s) - 1), e), s[Len(s)])
         ELSE Append(s, e)

RECURSIVE StableSort(_)
StableSort(s) ==
    IF s = <<>> THEN <<>>
    ELSE InsertSorted(StableSort(SubSeq(s, 1, Len(s) - 1)), s[Len(s)])

\* The items of a sorted list of <<key, item>> pairs.
Items(s) == [i \in 1 .. Len(s) |-> s[i][2]]

(***************************************************************************)
(* slack_client.py                                                         *)
(***************************************************************************)
\* SlackAPI.parse_ts: the instant of a Slack ts; a ts is kept as its tick.
ParseTs(ts) == ts

(***************************************************************************)
(* logic.py: the thread status classifier                                  *)
(***************************************************************************)
ReasonOf(name) == ":" \o name \o ":"

\* Mutant of ClassifyFromEmojis: every IN_PROCESS_EMOJIS name of
\* status_rules.py marks explicit.
ClassifyFromEmojis_anyInProcessEmoji(reactions) ==
    LET i == FirstIndex(reactions, {"white_check_mark", "thumbsup"})
    IN  IF i = 0 THEN None
        ELSE <<IN_PROCESS_EXPLICIT, ReasonOf(reactions[i])>>

\* _classify_from_emojis: the first named reaction decides; only
\* white_check_mark yields a result.
ClassifyFromEmojis(reactions) ==
    LET i == FirstIndex(reactions, {"white_check_mark"})
    IN  IF i = 0 THEN None
        ELSE <<IN_PROCESS_EXPLICIT, ReasonOf(reactions[i])>>

\* _classify_from_text: text never classifies.
ClassifyFromText(text) == None

\* Mutant of ManualStatusFromParentReactions: the check mark is looked for
\* before the no-entry tags.
ManualStatusFromParentReactions_checkMarkFirst(reactions) ==
    LET names == SelectSeq(reactions, LAMBDA n : n # "")
        c == FirstIndex(names, {"no_entry", "no_entry_sign"})
        e == FirstIndex(names, {"white_check_mark"})
    IN  IF e # 0 THEN <<IN_PROCESS_EXPLICIT, ReasonOf(names[e]), FALSE>>
        ELSE IF c # 0 THEN <<CLOSED, ReasonOf(names[c]), TRUE>>
        ELSE <<None, None, FALSE>>

\* Mutant of ManualStatusFromParentReactions: a closed parent is reported
\* without the tag that closed it.
ManualStatusFromParentReactions_closedWithoutReason(reactions) ==
    LET names == SelectSeq(reactions, LAMBDA n : n # "")
        c == FirstIndex(names, {"no_entry", "no_entry_sign"})
        e == FirstIndex(names, {"white_check_mark"})
    IN  IF c # 0 THEN <<CLOSED, None, TRUE>>
        ELSE IF e # 0 THEN <<IN_PROCESS_EXPLICIT, ReasonOf(names[e]), FALSE>>
        ELSE <<None, None, FALSE>>

\* _manual_status_from_parent_reactions: (status, reason, is_hard_decline)
ManualStatusFromParentReactions(reactions) ==
    LET names == SelectSeq(reactions, LAMBDA n : n # "")
        c == FirstIndex(names, {"no_entry", "no_entry_sign"})
        e == FirstIndex(names, {"white_check_mark"})
    IN  IF c # 0 THEN <<CLOSED, ReasonOf(names[c]), TRUE>>
        ELSE IF e # 0 THEN <<IN_PROCESS_EXPLICIT, ReasonOf(names[e]), FALSE>>
        ELSE <<None, None, FALSE>>

\* Mutant of CollectEvents: only replies earlier than the parent are skipped,
\* a reply of the parent's own timestamp counts.
RECURSIVE CollectEvents_skipEarlierOnly(_, _, _)
CollectEvents_skipEarlierOnly(msgs, submission_time, acc) ==
    IF msgs = <<>> THEN acc
    ELSE LET msg == Head(msgs)
             msg_time == ParseTs(msg.ts)
         IN  IF msg_time < submission_time
             THEN CollectEvents_skipEarlierOnly(Tail(msgs), submission_time, acc)
             ELSE CollectEvents_skipEarlierOnly(Tail(msgs), submission_time,
                    [last |-> Max(acc.last, msg_time),
                     events |-> Append(acc.events,
                                  <<msg_time, msg.reactions, msg.text>>)])

\* Mutant of CollectEvents: last_activity_time follows the last reply listed,
\* not the latest one.
RECURSIVE CollectEvents_lastListed(_, _, _)
CollectEvents_lastListed(msgs, submission_time, acc) ==
    IF msgs = <<>> THEN acc
    ELSE LET msg == Head(msgs)
             msg_time == ParseTs(msg.ts)
         IN  IF msg_time <= submission_time
             THEN CollectEvents_lastListed(Tail(msgs), submission_time, acc)
             ELSE CollectEvents_lastListed(Tail(msgs), submission_time,
                    [last |-> msg_time,
                     events |-> Append(acc.events,
                                  <<msg_time, msg.reactions, msg.text>>)])

\* Mutant of CollectEvents: the loop stops at the first reply that is not
\* later than the parent.
RECURSIVE CollectEvents_stopAtEarly(_, _, _)
CollectEvents_stopAtEarly(msgs, submission_time, acc) ==
    IF msgs = <<>> THEN acc
    ELSE LET msg == Head(msgs)
             msg_time == ParseTs(msg.ts)
         IN  IF msg_time <= submission_time
             THEN acc
             ELSE CollectEvents_stopAtEarly(Tail(msgs), submission_time,
                    [last |-> Max(acc.last, msg_time),
                     events |-> Append(acc.events,
                                  <<msg_time, msg.reactions, msg.text>>)])

\* Mutant of SweepEvents: the latest event decides, so an event without the
\* check mark takes the status back to unclear.
RECURSIVE SweepEvents_latestDecides(_, _)
SweepEvents_latestDecides(events, st) ==
    IF events = <<>> THEN st
    ELSE LET emoji_result == ClassifyFromEmojis(Head(events)[2])
             next == IF st[1] # CLOSED
                     THEN IF emoji_result # None /\ emoji_result[1] = IN_PROCESS_EXPLICIT
                          THEN emoji_result
                          ELSE <<IN_PROCESS_UNCLEAR, None>>
                     ELSE st
         IN  SweepEvents_latestDecides(Tail(events), next)

\* The loop of logic.py:228-233 over thread_messages: replies later than the
\* parent become events and move last_activity_time.
RECURSIVE CollectEvents(_, _, _)
CollectEvents(msgs, submission_time, acc) ==
    IF msgs = <<>> THEN acc
    ELSE LET msg == Head(msgs)
             msg_time == ParseTs(msg.ts)
         IN  IF msg_time <= submission_time
             THEN CollectEvents(Tail(msgs), submission_time, acc)
             ELSE CollectEvents(Tail(msgs), submission_time,
                    [last |-> Max(acc.last, msg_time),
                     events |-> Append(acc.events,
                                  <<msg_time, msg.reactions, msg.text>>)])

\* Mutant of SweepEvents: an in-process keyword in an event's text marks
\* explicit, as the check mark does.
RECURSIVE SweepEvents_textKeywords(_, _)
SweepEvents_textKeywords(events, st) ==
    IF events = <<>> THEN st
    ELSE LET emoji_result == ClassifyFromEmojis(Head(events)[2])
             text_result == IF \E i \in 1 .. Len(Head(events)[3]) : Head(events)[3][i] = "onsite"
                            THEN <<IN_PROCESS_EXPLICIT, "onsite">>
                            ELSE None
             next == IF st[1] # CLOSED
                        /\ emoji_result # None
                        /\ emoji_result[1] = IN_PROCESS_EXPLICIT
                     THEN emoji_result
                     ELSE IF st[1] = IN_PROCESS_UNCLEAR /\ text_result # None
                          THEN text_result
                          ELSE st
         IN  SweepEvents_textKeywords(Tail(events), next)

\* The loop of logic.py:248-259 over the sorted events.
RECURSIVE SweepEvents(_, _)
SweepEvents(events, st) ==
    IF events = <<>> THEN st
    ELSE LET emoji_result == ClassifyFromEmojis(Head(events)[2])
             next == IF st[1] # CLOSED
                        /\ emoji_result # None
                        /\ emoji_result[1] = IN_PROCESS_EXPLICIT
                     THEN emoji_result
                     ELSE st
         IN  SweepEvents(Tail(events), next)

\* Mutant of HasNoParentReactions: the test is inverted.
HasNoParentReactions_inverted(parent_reactions) == Len(parent_reactions) > 0

\* logic.py:204
HasNoParentReactions(parent_reactions) == Len(parent_reactions) = 0

\* Mutant of InferStatusForSubmission: the clock reading of the call counts as
\* activity.
InferStatusForSubmission_clockAsActivity(msg, thread, t_now) ==
    LET submission_time == ParseTs(msg.ts)
        parent_reactions == msg.reactions
        has_no_parent_reactions == HasNoParentReactions(parent_reactions)
        manual == ManualStatusFromParentReactions(parent_reactions)
        collected == CollectEvents(thread, submission_time,
                       [last |-> submission_time,
                        events |-> <<<<submission_time, parent_reactions, msg.text>>>>])
        events == Items(StableSort([i \in 1 .. Len(collected.events) |->
                          <<<<0, collected.events[i][1]>>, collected.events[i]>>]))
        seed == IF manual[1] # None /\ ~manual[3]
                THEN <<manual[1], manual[2]>>
                ELSE <<IN_PROCESS_UNCLEAR, None>>
        final == SweepEvents(events, seed)
    IN  IF manual[1] = CLOSED /\ manual[3]
        THEN [status |-> CLOSED, status_reason |-> manual[2],
              last_activity_time |-> submission_time,
              has_no_parent_reactions |-> has_no_parent_reactions]
        ELSE [status |-> final[1], status_reason |-> final[2],
              last_activity_time |-> Max(collected.last, t_now),
              has_no_parent_reactions |-> has_no_parent_reactions]

\* infer_status_for_submission(cfg, submission_msg, thread_messages, now)
InferStatusForSubmission(msg, thread, t_now) ==
    LET submission_time == ParseTs(msg.ts)
        parent_reactions == msg.reactions
        has_no_parent_reactions == HasNoParentReactions(parent_reactions)
        manual == ManualStatusFromParentReactions(parent_reactions)
        collected == CollectEvents(thread, submission_time,
                       [last |-> submission_time,
                        events |-> <<<<submission_time, parent_reactions, msg.text>>>>])
        \* events.sort(key=lambda x: x[0])
        events == Items(StableSort([i \in 1 .. Len(collected.events) |->
                          <<<<0, collected.events[i][1]>>, collected.events[i]>>]))
        seed == IF manual[1] # None /\ ~manual[3]
                THEN <<manual[1], manual[2]>>
                ELSE <<IN_PROCESS_UNCLEAR, None>>
        final == SweepEvents(events, seed)
    IN  IF manual[1] = CLOSED /\ manual[3]
        THEN [status |-> CLOSED, status_reason |-> manual[2],
              last_activity_time |-> submission_time,
              has_no_parent_reactions |-> has_no_parent_reactions]
        ELSE [status |-> final[1], status_reason |-> final[2],
              last_activity_time |-> collected.last,
              has_no_parent_reactions |-> has_no_parent_reactions]

(***************************************************************************)
(* The live thread: people reply and react, the classifier is run.         *)
(***************************************************************************)
TotalReactions ==
    Len(submission_msg.reactions)
    + (LET RECURSIVE Sum(_)
           Sum(s) == IF s = <<>> THEN 0 ELSE Len(Head(s).reactions) + Sum(Tail(s))
       IN  Sum(thread_messages))

ThreadEvents == Len(thread_messages) + TotalReactions

ClassifierInit ==
    /\ submission_msg \in [ts : ParentTimes, reactions : {<<>>}, text : MsgTexts \ {<<"onsite">>}]
    /\ thread_messages = <<>>
    /\ result = NoResult

\* conversations.replies grows by one message.
PostReply ==
    /\ ThreadEvents < MaxThreadEvents
    /\ \E ts \in ReplyTimes, text \in MsgTexts \ {<<>>} :
         thread_messages' = Append(thread_messages,
                              [ts |-> ts, reactions |-> <<>>, text |-> text])
    /\ result' = NoResult
    /\ UNCHANGED submission_msg

\* Someone reacts to the parent.
ReactToParent ==
    /\ ThreadEvents < MaxThreadEvents
    /\ \E name \in ReactionNames :
         submission_msg' = [submission_msg EXCEPT !.reactions = Append(@, name)]
    /\ result' = NoResult
    /\ UNCHANGED thread_messages

\* Someone reacts to a reply.
ReactToReply ==
    /\ ThreadEvents < MaxThreadEvents
    /\ \E i \in 1 .. Len(thread_messages), name \in ReactionNames :
         thread_messages' = [thread_messages EXCEPT ![i].reactions = Append(@, name)]
    /\ result' = NoResult
    /\ UNCHANGED submission_msg

\* One call of infer_status_for_submission on the thread as it stands, be it
\* the first on this thread or a later one.
Classify ==
    /\ \E t_now \in NowTimes :
         result' = InferStatusForSubmission(submission_msg, thread_messages, t_now)
    /\ UNCHANGED <<submission_msg, thread_messages>>

(***************************************************************************)
(* logic.py: build_candidate_submissions, the body of its loop for one     *)
(* submission message (logic.py:318-368).                                  *)
(***************************************************************************)
\* timedelta.days of (later - earlier): whole days, rounded down.
Days(later, earlier) == (later - earlier) \div TicksPerDay

\* Mutant of NeedsFollowup: the thresholds must be exceeded, not just met.
NeedsFollowup_strict(c, has_no_parent_reactions, status, days_since_submission, inactivity_days) ==
    has_no_parent_reactions
    \/ (/\ status = IN_PROCESS_UNCLEAR
        /\ days_since_submission > c.unclear_followup_days
        /\ inactivity_days > c.inactivity_days)

\* Mutant of NeedsFollowup: either day count suffices.
NeedsFollowup_either(c, has_no_parent_reactions, status, days_since_submission, inactivity_days) ==
    has_no_parent_reactions
    \/ (/\ status = IN_PROCESS_UNCLEAR
        /\ (days_since_submission >= c.unclear_followup_days
            \/ inactivity_days >= c.inactivity_days))

\* Mutant of NeedsFollowup: the day counts flag a submission of any status.
NeedsFollowup_anyStatus(c, has_no_parent_reactions, status, days_since_submission, inactivity_days) ==
    has_no_parent_reactions
    \/ (/\ days_since_submission >= c.unclear_followup_days
        /\ inactivity_days >= c.inactivity_days)

\* logic.py:340-344
NeedsFollowup(c, has_no_parent_reactions, status, days_since_submission, inactivity_days) ==
    has_no_parent_reactions
    \/ (/\ status = IN_PROCESS_UNCLEAR
        /\ days_since_submission >= c.unclear_followup_days
        /\ inactivity_days >= c.inactivity_days)

\* The CandidateSubmission appended for msg, with the locals
\* has_no_parent_reactions, last_activity_time and inactivity_days kept.
BuildCandidateSubmission(c, msg, thread, t_now) ==
    LET r == InferStatusForSubmission(msg, thread, t_now)
        days_since_submission == Days(t_now, ParseTs(msg.ts))
        inactivity_days == Days(t_now, r.last_activity_time)
    IN  [submitted_at |-> ParseTs(msg.ts),
         status |-> r.status,
         status_reason |-> r.status_reason,
         days_since_submission |-> days_since_submission,
         needs_followup |-> NeedsFollowup(c, r.has_no_parent_reactions, r.status,
                                          days_since_submission, inactivity_days),
         has_no_parent_reactions |-> r.has_no_parent_reactions,
         last_activity_time |-> r.last_activity_time,
         inactivity_days |-> inactivity_days]

Configs == [unclear_followup_days : 0 .. MaxDays, inactivity_days : 0 .. MaxDays]

ScanInit ==
    /\ submission_msg \in [ts : ParentTimes, reactions : SeqsUpTo(ReactionNames, 1),
                            text : {<<>>}]
    /\ thread_messages \in SeqsUpTo([ts : ScanReplyTimes,
                                      reactions : {<<>>, <<"white_check_mark">>},
                                      text : {<<"onsite">>}], 1)
    /\ result = NoResult
    /\ cfg \in Configs
    /\ now \in NowTimes
    /\ sub = NoSubmission

\* Time passes between two scans.
Tick ==
    /\ now < MaxNow
    /\ now' = now + 1
    /\ sub' = NoSubmission
    /\ UNCHANGED cfg

\* The scan reaches the submission message and appends its CandidateSubmission.
BuildCandidate ==
    /\ sub = NoSubmission
    /\ sub' = BuildCandidateSubmission(cfg, submission_msg, thread_messages, now)
    /\ UNCHANGED <<cfg, now>>

(***************************************************************************)
(* Texts: str.lower, str.strip, " ".join and the substring test `in`.      *)
(***************************************************************************)
\* str.lower on one atom: the capitalised atoms of the model and their
\* lower-case forms.
LowerAtom(a) ==
    CASE a = "Ana" -> "ana"
      [] a = "Acme" -> "acme"
      [] a = "Onsite" -> "onsite"
      [] a = "Hesitant" -> "hesitant"
      [] a = "Unfortunately" -> "unfortunately"
      [] OTHER -> a

Lower(text) == [i \in 1 .. Len(text) |-> LowerAtom(text[i])]

\* str.strip: leading and trailing blanks removed.
RECURSIVE Strip(_)
Strip(text) ==
    IF text = <<>> THEN <<>>
    ELSE IF Head(text) = SP THEN Strip(Tail(text))
    ELSE IF text[Len(text)] = SP THEN Strip(SubSeq(text, 1, Len(text) - 1))
    ELSE text

\* " ".join(texts)
RECURSIVE Join(_)
Join(texts) ==
    IF texts = <<>> THEN <<>>
    ELSE IF Len(texts) = 1 THEN texts[1]
    ELSE texts[1] \o <<SP>> \o Join(Tail(texts))

\* kw in text
Contains(text, kw) ==
    \E i \in 0 .. (Len(text) - Len(kw)) :
        \A j \in 1 .. Len(kw) : text[i + j] = kw[j]

ContainsAny(text, kws) == \E kw \in kws : Contains(text, kw)

\* A phrase of several words, one blank between two words.
Phrase(words) == Join([i \in 1 .. Len(words) |-> <<words[i]>>])

(***************************************************************************)
(* gmail_client.py                                                         *)
(***************************************************************************)
SIGNAL_ADVANCEMENT == "advancement"
SIGNAL_SCHEDULING == "scheduling"
SIGNAL_REJECTION == "rejection"
SIGNAL_OTHER == "other"

ADVANCEMENT_KEYWORDS ==
    {Phrase(<<"move", "forward">>), Phrase(<<"moving", "forward">>), <<"advance">>,
     <<"advancing">>, Phrase(<<"next", "round">>), Phrase(<<"next", "step">>),
     Phrase(<<"next", "stage">>), <<"proceed">>, <<"interview">>, <<"onsite">>,
     <<"loop">>, Phrase(<<"technical", "screen">>), Phrase(<<"coding", "challenge">>),
     <<"hackerrank">>, <<"take-home">>}

REJECTION_KEYWORDS ==
    {<<"pass">>, Phrase(<<"not", "moving", "forward">>), Phrase(<<"not", "a", "fit">>),
     Phrase(<<"not", "the", "right", "fit">>), <<"decline">>, <<"declined">>,
     <<"rejected">>, <<"rejection">>, <<"unfortunately">>,
     Phrase(<<"decided", "not", "to">>), Phrase(<<"going", "a", "different", "direction">>)}

SCHEDULING_KEYWORDS ==
    {Phrase(<<"calendar", "invite">>), Phrase(<<"calendar", "link">>), <<"schedule">>,
     <<"scheduling">>, Phrase(<<"book", "a", "time">>), <<"availability">>,
     <<"calendly">>, Phrase(<<"zoom", "link">>), Phrase(<<"google", "meet">>),
     Phrase(<<"teams", "link">>)}

\* _classify_signal(subject, snippet)
ClassifySignal(subject, snippet) ==
    LET combined == Lower(subject \o <<SP>> \o snippet)
    IN  IF ContainsAny(combined, REJECTION_KEYWORDS) THEN SIGNAL_REJECTION
        ELSE IF ContainsAny(combined, SCHEDULING_KEYWORDS) THEN SIGNAL_SCHEDULING
        ELSE IF ContainsAny(combined, ADVANCEMENT_KEYWORDS) THEN SIGNAL_ADVANCEMENT
        ELSE SIGNAL_OTHER

\* GmailClient._fetch_signal: the EmailSignal of one message.
FetchSignal(item) ==
    [subject |-> item.subject, date |-> item.date, snippet |-> item.snippet,
     signal_type |-> ClassifySignal(item.subject, item.snippet)]

\* Mutant of SearchEmails: the signals are sorted oldest first.
SearchEmails_oldestFirst(items) ==
    Items(StableSort([i \in 1 .. Len(items) |->
            <<<<0, items[i].date>>, FetchSignal(items[i])>>]))

\* GmailClient.search_emails: the signals of the messages found, newest first
\* (signals.sort(key=lambda s: s.date, reverse=True), which keeps the order of
\* signals of equal date).
SearchEmails(items) ==
    Items(StableSort([i \in 1 .. Len(items) |->
            <<<<0, 0 - items[i].date>>, FetchSignal(items[i])>>]))

(***************************************************************************)
(* calendar_client.py                                                      *)
(***************************************************************************)
\* The candidate and the client of the status check.
CandidateName == <<"Ana", SP, "Lee">>
FirstName == "Ana"
ClientWords == {<<"acme">>}

\* Mutant of CalendarSortKey: past events are not negated, so the oldest past
\* event sorts first.
CalendarSortKey_pastAscending(e) ==
    <<IF e.is_upcoming THEN 0 ELSE 1, e.start_time>>

\* The sort key of calendar_client.py:113:
\* (not e.is_upcoming, start if upcoming else -start)
CalendarSortKey(e) ==
    <<IF e.is_upcoming THEN 0 ELSE 1,
      IF e.is_upcoming THEN e.start_time ELSE 0 - e.start_time>>

\* The loop of search_events over the items the API lists: an item is kept
\* when its title names the candidate and a word of the client.
RECURSIVE MatchingEvents(_, _)
MatchingEvents(items, t_now) ==
    IF items = <<>> THEN <<>>
    ELSE LET item == Head(items)
             summary_lower == Lower(item.summary)
             rest == MatchingEvents(Tail(items), t_now)
         IN  IF ~Contains(summary_lower, <<LowerAtom(FirstName)>>) THEN rest
             ELSE IF ClientWords # {} /\ ~ContainsAny(summary_lower, ClientWords) THEN rest
             ELSE <<[summary |-> item.summary, start_time |-> item.start,
                     is_upcoming |-> item.start >= t_now]>> \o rest

\* CalendarClient.search_events
SearchEvents(items, t_now) ==
    LET events == MatchingEvents(items, t_now)
    IN  Items(StableSort([i \in 1 .. Len(events) |->
                <<CalendarSortKey(events[i]), events[i]>>]))

(***************************************************************************)
(* status_synthesizer.py: the keyword synthesizer                          *)
(***************************************************************************)
CONFIDENCE_HIGH == "high"
CONFIDENCE_MEDIUM == "medium"
CONFIDENCE_LOW == "low"

SOURCE_CALENDAR == "calendar"
SOURCE_GMAIL == "gmail"
SOURCE_SLACK == "slack"
SOURCE_ASHBY == "ashby"
SOURCE_NONE == "none"

SOFT_PASS_KEYWORDS ==
    {Phrase(<<"comp", "mismatch">>), Phrase(<<"compensation", "mismatch">>),
     Phrase(<<"salary", "mismatch">>), Phrase(<<"over", "budget">>),
     <<"overqualified">>, <<"underqualified">>,
     Phrase(<<"not", "the", "right", "time">>), Phrase(<<"not", "a", "priority">>),
     Phrase(<<"keeping", "warm">>), Phrase(<<"table", "this">>),
     Phrase(<<"hold", "off">>), Phrase(<<"put", "a", "pin">>),
     Phrase(<<"concerned", "about">>), <<"hesitant">>, Phrase(<<"on", "the", "fence">>)}

\* _contains_soft_pass(texts)
ContainsSoftPass(texts) == ContainsAny(Lower(Join(texts)), SOFT_PASS_KEYWORDS)

\* _format_event_date: month/day of the instant, here the number of its day.
FormatEventDate(t) == ToString(t \div TicksPerDay)

\* _extract_stage_from_event: the first stage word, in the list's order,
\* found in the title.
StageWords ==
    <<<<"onsite">>, <<"technical">>, Phrase(<<"tech", "screen">>), <<"coding">>,
      <<"loop">>, <<"final">>, <<"intro">>, <<"phone">>>>

ExtractStageFromEvent(summary) ==
    LET summary_lower == Lower(summary)
        hits == {i \in 1 .. Len(StageWords) : Contains(summary_lower, StageWords[i])}
    IN  IF hits = {} THEN <<"interview">>
        ELSE StageWords[CHOOSE i \in hits : \A j \in hits : i <= j]

\* text[:200]
SupportingContextLimit == 200
Truncate(text) ==
    IF Len(text) <= SupportingContextLimit THEN text
    ELSE SubSeq(text, 1, SupportingContextLimit)

Snippets(emails) == [i \in 1 .. Len(emails) |-> emails[i].snippet]
Texts(messages) == [i \in 1 .. Len(messages) |-> messages[i].text]

StatusSynthesis(source, one_liner, confidence, flag, context) ==
    [status_source |-> source, one_liner |-> one_liner, confidence |-> confidence,
     flag_for_review |-> flag, supporting_context |-> context]

\* Branch 1 of _synthesize_with_keywords (status_synthesizer.py:322-341)
CalendarBranch(thread, emails, events) ==
    LET event == events[1]
        stage == ExtractStageFromEvent(event.summary)
        date_str == FormatEventDate(event.start_time)
        one_liner == IF event.is_upcoming
                     THEN stage \o <<" is set for ", date_str, " - excited to see how it goes!">>
                     ELSE <<"had the ">> \o stage \o
                          <<" on ", date_str, " - any feedback on how it went?">>
        all_text == Snippets(emails) \o Texts(thread)
    IN  StatusSynthesis(SOURCE_CALENDAR, one_liner, CONFIDENCE_HIGH,
                        ContainsSoftPass(all_text), event.summary)

\* Mutant of ActionableEmails: emails of type other are not left out.
ActionableEmails_anyType(emails) == emails

\* Branch 2 (status_synthesizer.py:344-378)
ActionableEmails(emails) ==
    SelectSeq(emails, LAMBDA e : e.signal_type \in
                {SIGNAL_ADVANCEMENT, SIGNAL_SCHEDULING, SIGNAL_REJECTION})

\* Mutant of GmailBranch: a rejection is flagged only on a soft-pass phrase.
GmailBranch_flagFromText(thread, emails) ==
    LET top == ActionableEmails(emails)[1]
        flag == ContainsSoftPass(Snippets(emails) \o Texts(thread))
        date_str == FormatEventDate(top.date)
        context == <<"Email: ">> \o top.subject \o <<" (", date_str, ")">>
    IN  IF top.signal_type = SIGNAL_REJECTION
        THEN StatusSynthesis(SOURCE_GMAIL,
                 <<"looks like there may have been a pass - wanted to confirm?">>,
                 CONFIDENCE_MEDIUM, flag, context)
        ELSE IF top.signal_type = SIGNAL_SCHEDULING
        THEN StatusSynthesis(SOURCE_GMAIL,
                 <<"scheduling in progress - any update on next steps?">>,
                 CONFIDENCE_MEDIUM, flag, context)
        ELSE StatusSynthesis(SOURCE_GMAIL,
                 <<"advanced to the next stage as of ", date_str,
                   " - any update on where things stand?">>,
                 CONFIDENCE_MEDIUM, flag, context)

GmailBranch(thread, emails) ==
    LET top == ActionableEmails(emails)[1]
        flag == ContainsSoftPass(Snippets(emails) \o Texts(thread))
        date_str == FormatEventDate(top.date)
        context == <<"Email: ">> \o top.subject \o <<" (", date_str, ")">>
    IN  IF top.signal_type = SIGNAL_REJECTION
        THEN StatusSynthesis(SOURCE_GMAIL,
                 <<"looks like there may have been a pass - wanted to confirm?">>,
                 CONFIDENCE_MEDIUM, TRUE, context)
        ELSE IF top.signal_type = SIGNAL_SCHEDULING
        THEN StatusSynthesis(SOURCE_GMAIL,
                 <<"scheduling in progress - any update on next steps?">>,
                 CONFIDENCE_MEDIUM, flag, context)
        ELSE StatusSynthesis(SOURCE_GMAIL,
                 <<"advanced to the next stage as of ", date_str,
                   " - any update on where things stand?">>,
                 CONFIDENCE_MEDIUM, flag, context)

\* Branch 3 (status_synthesizer.py:381-414)
Replies(thread) ==
    SelectSeq(thread, LAMBDA m : ~m.is_parent /\ Strip(m.text) # <<>>)

SlackBranch(thread, first_name) ==
    LET replies == Replies(thread)
        all_text == Texts(thread)
        latest_reply == replies[Len(replies)]
        date_str == <<" as of ", FormatEventDate(latest_reply.timestamp)>>
        combined == Lower(Join(all_text))
        one_liner ==
            IF ContainsAny(combined, {Phrase(<<"coding", "challenge">>), <<"hackerrank">>,
                                      <<"take-home">>, <<"homework">>})
            THEN <<"coding challenge sent">> \o date_str \o <<" - any update from ", first_name, "?">>
            ELSE IF ContainsAny(combined, {Phrase(<<"tech", "screen">>),
                                           Phrase(<<"technical", "screen">>),
                                           Phrase(<<"phone", "screen">>)})
            THEN <<"phone/tech screen completed">> \o date_str \o <<" - any feedback?">>
            ELSE IF ContainsAny(combined, {<<"onsite">>, <<"loop">>, Phrase(<<"final", "round">>)})
            THEN <<"onsite/loop scheduled">> \o date_str \o <<" - any news?">>
            ELSE <<"last activity">> \o date_str \o <<" - any update on where things stand?">>
    IN  StatusSynthesis(SOURCE_SLACK, one_liner, CONFIDENCE_MEDIUM,
                        ContainsSoftPass(all_text), Truncate(latest_reply.text))

\* Branch 4 (status_synthesizer.py:417-429): the stage of the record,
\* pipeline_stage or currentStage or "".
AshbyStage(record) ==
    IF record = NoRecord THEN <<>>
    ELSE IF record.pipeline_stage # <<>> THEN record.pipeline_stage
    ELSE record.currentStage

\* Mutant of SynthesizeWithKeywords: the tracking record is looked at before
\* the chat thread.
SynthesizeWithKeywords_recordBeforeChat(record, thread, emails, events) ==
    IF events # <<>> THEN CalendarBranch(thread, emails, events)
    ELSE IF ActionableEmails(emails) # <<>> THEN GmailBranch(thread, emails)
    ELSE IF AshbyStage(record) # <<>>
    THEN StatusSynthesis(SOURCE_ASHBY, <<"any update on where things stand?">>,
             CONFIDENCE_LOW, FALSE,
             <<"Ashby stage: ">> \o AshbyStage(record) \o <<" (", ToString(record.days_in_stage), " days)">>)
    ELSE IF Replies(thread) # <<>> THEN SlackBranch(thread, FirstName)
    ELSE StatusSynthesis(SOURCE_NONE, <<"any update on where things stand here?">>,
             CONFIDENCE_LOW, FALSE, <<"No recent signal from any source.">>)

\* Mutant of SynthesizeWithKeywords: emails are looked at before the calendar.
SynthesizeWithKeywords_emailFirst(record, thread, emails, events) ==
    IF ActionableEmails(emails) # <<>> THEN GmailBranch(thread, emails)
    ELSE IF events # <<>> THEN CalendarBranch(thread, emails, events)
    ELSE IF Replies(thread) # <<>> THEN SlackBranch(thread, FirstName)
    ELSE IF AshbyStage(record) # <<>>
    THEN StatusSynthesis(SOURCE_ASHBY, <<"any update on where things stand?">>,
             CONFIDENCE_LOW, FALSE,
             <<"Ashby stage: ">> \o AshbyStage(record) \o <<" (", ToString(record.days_in_stage), " days)">>)
    ELSE StatusSynthesis(SOURCE_NONE, <<"any update on where things stand here?">>,
             CONFIDENCE_LOW, FALSE, <<"No recent signal from any source.">>)

\* _synthesize_with_keywords
SynthesizeWithKeywords(record, thread, emails, events) ==
    IF events # <<>> THEN CalendarBranch(thread, emails, events)
    ELSE IF ActionableEmails(emails) # <<>> THEN GmailBranch(thread, emails)
    ELSE IF Replies(thread) # <<>> THEN SlackBranch(thread, FirstName)
    ELSE IF AshbyStage(record) # <<>>
    THEN StatusSynthesis(SOURCE_ASHBY, <<"any update on where things stand?">>,
             CONFIDENCE_LOW, FALSE,
             <<"Ashby stage: ">> \o AshbyStage(record) \o <<" (", ToString(record.days_in_stage), " days)">>)
    ELSE StatusSynthesis(SOURCE_NONE, <<"any update on where things stand here?">>,
             CONFIDENCE_LOW, FALSE, <<"No recent signal from any source.">>)

(***************************************************************************)
(* status_check_runner.py: the loop body of run_status_check for one       *)
(* candidate (status_check_runner.py:159-217).                             *)
(***************************************************************************)
AshbyRecords ==
    {NoRecord,
     [pipeline_stage |-> <<>>, currentStage |-> <<>>, days_in_stage |-> 0],
     [pipeline_stage |-> <<"Onsite">>, currentStage |-> <<>>, days_in_stage |-> 3]}

\* Texts of the submission message and of the replies of the thread.
ParentTexts == {<<"Ana", SP, "Lee">>, <<"Hesitant">>}
ReplyTexts == {<<>>, <<SP>>, <<"thanks">>, <<"hesitant">>, <<"onsite">>}

\* The thread as conversations.replies lists it: the parent, then the
\* replies in the order they were posted.
ThreadOf(parent_text, reply_texts) ==
    <<[text |-> parent_text, timestamp |-> 0, is_parent |-> TRUE]>>
    \o [i \in 1 .. Len(reply_texts) |->
          [text |-> reply_texts[i], timestamp |-> i, is_parent |-> FALSE]]

EmailItems(t_now) ==
    [subject : {<<"Re:", SP, "Ana">>},
     snippet : {<<"Unfortunately">>, <<"calendly">>, Phrase(<<"next", "round">>),
                Phrase(<<"over", "budget">>)},
     date : {t_now - 3, t_now - 1}]

CalendarItems(t_now) ==
    [summary : {<<"Ana", SP, "x", SP, "Acme", SP, "Onsite">>,
                <<"ana", SP, "x", SP, "acme">>,
                <<"ana", SP, "dentist">>},
     start : {t_now - 3, t_now - 1, t_now, t_now + 2}]

NumReplies(thread) == IF thread = <<>> THEN 0 ELSE Len(thread) - 1

SynthInit ==
    /\ submission_msg = [ts |-> 0, reactions |-> <<>>, text |-> <<>>]
    /\ thread_messages = <<>>
    /\ result = NoResult
    /\ cfg = NoConfig
    /\ now = 2 * TicksPerDay
    /\ sub = NoSubmission
    /\ calendar_events = <<>> /\ email_signals = <<>> /\ slack_thread = <<>>
    /\ ashby_record \in AshbyRecords
    /\ synthesis = NoSynthesis
    /\ step = "thread"
    /\ response = NoResponse
    /\ NudgeIdle
    /\ DashIdle
    /\ FetchIdle

\* status_check_runner.py:163-177: the thread of the submission, or no
\* message at all when it cannot be fetched.
GatherThread ==
    /\ step = "thread"
    /\ \/ slack_thread' = <<>>
       \/ \E parent_text \in ParentTexts, reply_texts \in SeqsUpTo(ReplyTexts, MaxEvidence) :
            slack_thread' = ThreadOf(parent_text, reply_texts)
    /\ step' = "gmail"
    /\ UNCHANGED <<calendar_events, email_signals, ashby_record, synthesis>>

\* status_check_runner.py:179-189
GatherEmails ==
    /\ step = "gmail"
    /\ \E items \in SeqsUpTo(EmailItems(now), MaxEvidence - NumReplies(slack_thread)) :
         email_signals' = SearchEmails(items)
    /\ step' = "calendar"
    /\ UNCHANGED <<calendar_events, slack_thread, ashby_record, synthesis>>

\* status_check_runner.py:192-204
GatherEvents ==
    /\ step = "calendar"
    /\ \E items \in SeqsUpTo(CalendarItems(now),
                     MaxEvidence - NumReplies(slack_thread) - Len(email_signals)) :
         calendar_events' = SearchEvents(items, now)
    /\ step' = "synth"
    /\ UNCHANGED <<email_signals, slack_thread, ashby_record, synthesis>>

\* synthesize_candidate_status as run_status_check calls it: no API key, so
\* the keyword synthesizer answers (status_synthesizer.py:147, 160-166).
Synthesize ==
    /\ step = "synth"
    /\ synthesis' = SynthesizeWithKeywords(ashby_record, slack_thread, email_signals,
                                           calendar_events)
    /\ step' = "done"
    /\ UNCHANGED <<calendar_events, email_signals, slack_thread, ashby_record>>

SynthIdle ==
    /\ calendar_events = <<>> /\ email_signals = <<>>
    /\ slack_thread = <<>> /\ ashby_record = NoRecord /\ synthesis = NoSynthesis
    /\ step = "idle"
    /\ response = NoResponse

IdleInit ==
    /\ cfg = NoConfig /\ now = 0 /\ sub = NoSubmission
    /\ SynthIdle

(***************************************************************************)
(* status_synthesizer.py: the Claude-powered synthesizer                   *)
(* (_synthesize_with_claude, status_synthesizer.py:171-289).               *)
(*                                                                         *)
(* The text of a response is a sequence of lines.  A JSON string is        *)
(* written as its text; any other JSON value is written with the prefix    *)
(* "json:" (json:true, json:false, json:null, json:0).                     *)
(***************************************************************************)
\* An exception leaving synthesize_candidate_status instead of a result.
Raised(exception) == [exception |-> exception]

\* Lines a response may be made of.
Fence == "<fence>"
FenceJson == "<fence>json"
BlankLine == ""
DocFull == "{five fields}"
DocPartial == "{source, confidence and flag of other values}"
DocEmpty == "{}"
DocArray == "[]"
DocString == "'on track'"
Prose == "Here is the status:"

\* l.strip().startswith(fence), the fence being three backquotes
IsFence(line) == line \in {Fence, FenceJson}

\* str.strip on a text of several lines: blank lines at both ends go.
RECURSIVE StripLines(_)
StripLines(lines) ==
    IF lines = <<>> THEN <<>>
    ELSE IF Head(lines) = BlankLine THEN StripLines(Tail(lines))
    ELSE IF lines[Len(lines)] = BlankLine THEN StripLines(SubSeq(lines, 1, Len(lines) - 1))
    ELSE lines

\* json.loads: the value of a text that is one JSON document, JSONDecodeError
\* for any other text (the empty text, prose, a fence left in place).
JsonLoads(lines) ==
    IF Len(lines) # 1 THEN [type |-> "JSONDecodeError"]
    ELSE CASE lines[1] = DocFull ->
                [type |-> "object",
                 members |-> [status_source |-> "calendar",
                              one_liner |-> <<"onsite is set for Tuesday - excited!">>,
                              confidence |-> "high",
                              flag_for_review |-> "json:true",
                              supporting_context |-> <<"Onsite invite for Tuesday">>]]
           [] lines[1] = DocPartial ->
                [type |-> "object",
                 members |-> [status_source |-> "email", confidence |-> "json:null",
                              flag_for_review |-> "json:false"]]
           [] lines[1] = DocEmpty -> [type |-> "object", members |-> <<>>]
           [] lines[1] = DocArray -> [type |-> "array"]
           [] lines[1] = DocString -> [type |-> "string"]
           [] OTHER -> [type |-> "JSONDecodeError"]

\* parsed.get(key, default)
Get(members, key, default) ==
    IF key \in DOMAIN members THEN members[key] ELSE default

\* bool(value) of a JSON value
Truthy(value) == value \notin {"json:false", "json:null", "json:0", ""}

\* What client.messages.create can do: raise (network error, timeout, rate
\* limit) or return a message with a list of content blocks.
BackendErrors == {"APIConnectionError", "APITimeoutError", "RateLimitError"}

RawTexts ==
    {<<DocFull>>, <<FenceJson, DocFull, Fence>>, <<BlankLine, DocPartial, BlankLine>>,
     <<DocEmpty>>, <<DocArray>>, <<DocString>>, <<Prose>>, <<>>,
     <<Prose, FenceJson, DocFull, Fence>>}

BackendOutcomes ==
    {[kind |-> "raises", error |-> e] : e \in BackendErrors}
    \cup {[kind |-> "message", content |-> <<>>]}
    \cup {[kind |-> "message", content |-> <<[text |-> raw]>>] : raw \in RawTexts}

\* The try block of _synthesize_with_claude once messages.create has
\* returned or raised (status_synthesizer.py:255-289): every exception
\* raised inside it ends in the keyword synthesizer.
SynthesizeWithClaude(record, thread, emails, events, outcome) ==
    LET fallback == SynthesizeWithKeywords(record, thread, emails, events)
    IN  IF outcome.kind = "raises" THEN fallback
        ELSE IF outcome.content = <<>> THEN fallback
        ELSE LET raw == StripLines(outcome.content[1].text)
                 unfenced == IF raw # <<>> /\ IsFence(raw[1])
                             THEN StripLines(SelectSeq(raw, LAMBDA l : ~IsFence(l)))
                             ELSE raw
                 parsed == JsonLoads(unfenced)
             IN  IF parsed.type # "object" THEN fallback
                 ELSE StatusSynthesis(
                        Get(parsed.members, "status_source", SOURCE_NONE),
                        Get(parsed.members, "one_liner", <<"any update on where things stand?">>),
                        Get(parsed.members, "confidence", CONFIDENCE_LOW),
                        Truthy(Get(parsed.members, "flag_for_review", "json:false")),
                        Get(parsed.members, "supporting_context", <<>>))

\* The evidence of one candidate, as the clients hand it over.
BackendInit ==
    /\ submission_msg = [ts |-> 0, reactions |-> <<>>, text |-> <<>>]
    /\ thread_messages = <<>>
    /\ result = NoResult
    /\ cfg = NoConfig
    /\ now = 2 * TicksPerDay
    /\ sub = NoSubmission
    /\ ashby_record \in AshbyRecords
    /\ \E parent_text \in ParentTexts, reply_texts \in SeqsUpTo(ReplyTexts, MaxBackendEvidence) :
         /\ slack_thread = ThreadOf(parent_text, reply_texts)
         /\ \E mails \in SeqsUpTo(EmailItems(now), MaxBackendEvidence - Len(reply_texts)) :
              /\ email_signals = SearchEmails(mails)
              /\ \E items \in SeqsUpTo(CalendarItems(now),
                                 MaxBackendEvidence - Len(reply_texts) - Len(mails)) :
                   calendar_events = SearchEvents(items, now)
    /\ synthesis = NoSynthesis
    /\ step = "synth"
    /\ response = NoResponse
    /\ NudgeIdle
    /\ DashIdle
    /\ FetchIdle

\* synthesize_candidate_status with an API key, up to the call of
\* client.messages.create: the import of anthropic (line 182) stands before the try
\* block, so a missing library leaves the function as an exception.
CallClaude ==
    /\ step = "synth"
    /\ \/ synthesis' = Raised("ModuleNotFoundError") /\ step' = "raised"
       \/ synthesis' = synthesis /\ step' = "awaiting"
    /\ UNCHANGED <<calendar_events, email_signals, slack_thread, ashby_record, response>>

\* client.messages.create returns or raises, and the function finishes.
ClaudeResponds ==
    /\ step = "awaiting"
    /\ \E outcome \in BackendOutcomes :
         /\ response' = outcome
         /\ synthesis' = SynthesizeWithClaude(ashby_record, slack_thread, email_signals,
                                              calendar_events, outcome)
    /\ step' = "done"
    /\ UNCHANGED <<calendar_events, email_signals, slack_thread, ashby_record>>

(***************************************************************************)
(* nudge.py: NudgeTracker, find_submissions_needing_nudge, send_nudge and  *)
(* run_nudge_check.                                                        *)
(*                                                                         *)
(* The ts of a submission message is its tick and the six digits Slack     *)
(* writes after the point; the two strings nudge.py makes of it are        *)
(* computed digit by digit.                                                *)
(***************************************************************************)
ChannelId == "C1"

\* Digits after the point of the ts of a submission message.
Micros == {0, 14279, 14270}

StatusesOfThreads == {IN_PROCESS_UNCLEAR, IN_PROCESS_EXPLICIT}

\* The six decimals of a float, as format spec .6f writes them.
Power10(k) == CASE k = 0 -> 1 [] k = 1 -> 10 [] k = 2 -> 100 [] k = 3 -> 1000
                [] k = 4 -> 10000 [] k = 5 -> 100000

Digits6(micros) == [k \in 1 .. 6 |-> (micros \div Power10(6 - k)) % 10]

\* The decimals of the shortest text that reads back as the same float: no
\* trailing zero, one digit at least.
RECURSIVE DropTrailingZeros(_)
DropTrailingZeros(digits) ==
    IF Len(digits) > 1 /\ digits[Len(digits)] = 0
    THEN DropTrailingZeros(SubSeq(digits, 1, Len(digits) - 1))
    ELSE digits

RECURSIVE DigitsToString(_)
DigitsToString(digits) ==
    IF digits = <<>> THEN ""
    ELSE ToString(Head(digits)) \o DigitsToString(Tail(digits))

\* str(submitted_at.timestamp())                        (nudge.py:134)
FloatStr(ts) ==
    ToString(ts.tick) \o "." \o DigitsToString(DropTrailingZeros(Digits6(ts.micros)))

\* f"{submitted_at.timestamp():.6f}"                    (nudge.py:155)
FormatFixed6(ts) ==
    ToString(ts.tick) \o "." \o DigitsToString(Digits6(ts.micros))

\* NudgeTracker._make_key
MakeKey(channel_id, thread_ts) == channel_id \o ":" \o thread_ts

\* NudgeTracker.is_nudged
IsNudged(records, channel_id, thread_ts) ==
    \E r \in records : r.key = MakeKey(channel_id, thread_ts)

\* NudgeTracker.mark_nudged: the record of the key is written or overwritten,
\* and the tracker saved.
MarkNudged(records, channel_id, thread_ts, t_now) ==
    {r \in records : r.key # MakeKey(channel_id, thread_ts)}
    \cup {[key |-> MakeKey(channel_id, thread_ts), channel_id |-> channel_id,
           thread_ts |-> thread_ts, nudged_at |-> t_now]}

\* Mutant of ClearOldRecords: a record is dropped once it is more than a day
\* old, whatever the number of days asked for.
ClearOldRecords_afterOneDay(records, days, t_now) ==
    {r \in records : ~(Days(t_now, r.nudged_at) > 0)}

\* NudgeTracker.clear_old_records(days)
ClearOldRecords(records, days, t_now) ==
    {r \in records : ~(Days(t_now, r.nudged_at) > days)}

\* (now - parse_ts(msg.ts)).days: whole days between the clock reading and
\* the instant tick + micros/10^6.
DaysSinceSubmission(t_now, ts) ==
    IF ts.micros = 0 THEN (t_now - ts.tick) \div TicksPerDay
    ELSE (t_now - ts.tick - 1) \div TicksPerDay

\* build_candidate_submissions as run_nudge_check uses it: the messages of
\* the channel since now - lookback_days (inclusive), one CandidateSubmission
\* for each LinkedIn URL of a message.
RECURSIVE ScanThreads(_, _, _, _)
ScanThreads(ths, i, c, t_now) ==
    IF i > Len(ths) THEN <<>>
    ELSE LET th == ths[i]
             submission == [thread |-> i, channel_id |-> th.channel_id,
                            submitted_at |-> th.ts, status |-> th.status,
                            days_since_submission |-> DaysSinceSubmission(t_now, th.ts)]
             rest == ScanThreads(ths, i + 1, c, t_now)
         IN  IF th.ts.tick < t_now - c.lookback_days * TicksPerDay THEN rest
             ELSE [u \in 1 .. th.urls |-> submission] \o rest

\* find_submissions_needing_nudge
FindSubmissionsNeedingNudge(c, submissions, records) ==
    SelectSeq(submissions, LAMBDA sb :
        /\ sb.status = IN_PROCESS_UNCLEAR
        /\ ~(sb.days_since_submission < c.nudge_days)
        /\ ~IsNudged(records, sb.channel_id, FloatStr(sb.submitted_at)))

\* The loop of run_nudge_check over needing_nudge (nudge.py:251-254), each
\* turn one send_nudge: posted[i] tells whether post_thread_reply returned a
\* ts; a posted reply is recorded by mark_nudged.
RECURSIVE SendNudges(_, _, _, _)
SendNudges(needing, posted, t_now, acc) ==
    IF needing = <<>> THEN acc
    ELSE LET sb == Head(needing)
             thread_ts == FormatFixed6(sb.submitted_at)
             next == IF Head(posted)
                     THEN [threads |-> [acc.threads EXCEPT ![sb.thread].nudges = @ + 1],
                           tracker |-> MarkNudged(acc.tracker, sb.channel_id, thread_ts, t_now),
                           nudges_sent |-> acc.nudges_sent + 1]
                     ELSE acc
         IN  SendNudges(Tail(needing), Tail(posted), t_now, next)

NudgeConfigs == [nudge_days : {1}, lookback_days : {1, 2}]

ThreadsOfChannel ==
    [channel_id : {ChannelId}, ts : [tick : {0}, micros : Micros],
     status : StatusesOfThreads, urls : {1, 2}, nudges : {0}]

NudgeInit ==
    /\ submission_msg = [ts |-> 0, reactions |-> <<>>, text |-> <<>>]
    /\ thread_messages = <<>>
    /\ result = NoResult
    /\ sub = NoSubmission
    /\ SynthIdle
    /\ cfg \in NudgeConfigs
    /\ now = TicksPerDay
    /\ threads \in SeqsUpTo(ThreadsOfChannel, MaxThreads) \ {<<>>}
    /\ tracker = {}
    /\ nudge_results = NoRun
    /\ DashIdle
    /\ FetchIdle

\* run_nudge_check(cfg, slack, dry_run): scan, select, send unless dry_run,
\* purge the old records, return the counts.
RunNudgeCheck ==
    \E dry_run \in BOOLEAN :
       LET loaded == tracker
           submissions == ScanThreads(threads, 1, cfg, now)
           needing_nudge == FindSubmissionsNeedingNudge(cfg, submissions, loaded)
           start == [threads |-> threads, tracker |-> loaded, nudges_sent |-> 0]
       IN  /\ \A i \in 1 .. Len(needing_nudge) :
                 threads[needing_nudge[i].thread].nudges < MaxNudges
           /\ \E posted \in [1 .. Len(needing_nudge) -> BOOLEAN] :
                LET after == IF dry_run THEN start
                             ELSE SendNudges(needing_nudge, posted, now, start)
                IN  /\ threads' = after.threads
                    /\ tracker' = ClearOldRecords(after.tracker, cfg.lookback_days, now)
                    /\ nudge_results' = [submissions_checked |-> Len(submissions),
                                         nudges_needed |-> Len(needing_nudge),
                                         nudges_sent |-> after.nudges_sent,
                                         dry_run |-> dry_run]

(***************************************************************************)
(* serve_dashboard.py: the request handlers that start a background job    *)
(* and the jobs run_generation and run_enrichment.                         *)
(*                                                                         *)
(* The server is a socketserver.TCPServer (serve_dashboard.py:969): one    *)
(* thread serves the requests one after the other.  A job runs in a thread *)
(* of its own, and its steps interleave with those of the handler and of   *)
(* the other jobs.  No lock guards the status dicts.                       *)
(***************************************************************************)
GENERATION == "run_generation"
ENRICHMENT == "run_enrichment"

\* The error messages a job records in its status dict.
GenerationErrors ==
    {"No matching channels found", "Error during scanning", "str(e)"}
EnrichmentErrors ==
    {"No submission data found", "No submissions in data file",
     "No submissions match the filter criteria", "str(e)"}

\* target of the Thread a route starts
TargetOf(route) == IF route = "POST /api/enrich" THEN ENRICHMENT ELSE GENERATION

\* A thread as threading.Thread(...).start() leaves it: started, no
\* statement of its target executed yet.  error and completed tell what this
\* run has written to its status dict so far.
NewJob(target) == [target |-> target, pc |-> "start", error |-> None, completed |-> FALSE]

\* The test that opens each of the three handlers, if status["running"]:
\* answer 409 and return, else go on to start the thread.
CheckRunning(route, status) ==
    /\ handler.pc = "idle"
    /\ requests < MaxRequests
    /\ requests' = requests + 1
    /\ handler' = IF status.running
                  THEN [pc |-> "idle", route |-> route, code |-> 409]
                  ELSE [pc |-> "starting", route |-> route, code |-> 0]
    /\ UNCHANGED <<generation_status, enrichment_status, jobs>>

\* DashboardRequestHandler.handle_api_generate, up to its test
HandleApiGenerate == CheckRunning("GET /api/generate", generation_status)

\* DashboardRequestHandler.handle_api_generate_post, up to its test
HandleApiGeneratePost == CheckRunning("POST /api/generate", generation_status)

\* DashboardRequestHandler.handle_api_enrich, up to its test
HandleApiEnrich == CheckRunning("POST /api/enrich", enrichment_status)

\* The rest of the handler: thread.start(), then 202.
StartThread ==
    /\ handler.pc = "starting"
    /\ jobs' = Append(jobs, NewJob(TargetOf(handler.route)))
    /\ handler' = [handler EXCEPT !.pc = "idle", !.code = 202]
    /\ UNCHANGED <<generation_status, enrichment_status, requests>>

\* run_generation, serve_dashboard.py:744-747
RunGenerationBegin(j) ==
    /\ jobs[j].target = GENERATION /\ jobs[j].pc = "start"
    /\ generation_status' = [running |-> TRUE, error |-> None, completed |-> FALSE]
    /\ jobs' = [jobs EXCEPT ![j].pc = "working"]
    /\ UNCHANGED <<enrichment_status, handler, requests>>

\* Mutant of RunGenerationFail: the error is recorded and the function
\* returns, the flag left as it is.
RunGenerationFail_returnsAtOnce(j) ==
    /\ jobs[j].target = GENERATION /\ jobs[j].pc = "working"
    /\ \E msg \in GenerationErrors :
         /\ generation_status' = [generation_status EXCEPT !.error = msg]
         /\ jobs' = [jobs EXCEPT ![j].pc = "finished", ![j].error = msg]
    /\ UNCHANGED <<enrichment_status, handler, requests>>

\* run_generation records an error: no channels (763), the scan failed (777),
\* any other exception (820).
RunGenerationFail(j) ==
    /\ jobs[j].target = GENERATION /\ jobs[j].pc = "working"
    /\ \E msg \in GenerationErrors :
         /\ generation_status' = [generation_status EXCEPT !.error = msg]
         /\ jobs' = [jobs EXCEPT ![j].pc = "failed", ![j].error = msg]
    /\ UNCHANGED <<enrichment_status, handler, requests>>

\* run_generation, serve_dashboard.py:815
RunGenerationComplete(j) ==
    /\ jobs[j].target = GENERATION /\ jobs[j].pc = "working"
    /\ generation_status' = [generation_status EXCEPT !.completed = TRUE]
    /\ jobs' = [jobs EXCEPT ![j].pc = "completed", ![j].completed = TRUE]
    /\ UNCHANGED <<enrichment_status, handler, requests>>

\* generation_status["running"] = False, the statement that follows each of
\* the above (764, 778, 816, 821), and the thread ends.
RunGenerationRelease(j) ==
    /\ jobs[j].target = GENERATION /\ jobs[j].pc \in {"failed", "completed"}
    /\ generation_status' = [generation_status EXCEPT !.running = FALSE]
    /\ jobs' = [jobs EXCEPT ![j].pc = "finished"]
    /\ UNCHANGED <<enrichment_status, handler, requests>>

\* run_enrichment, serve_dashboard.py:830-839: the global is bound to a new
\* dict.
RunEnrichmentBegin(j) ==
    /\ jobs[j].target = ENRICHMENT /\ jobs[j].pc = "start"
    /\ enrichment_status' = [running |-> TRUE, error |-> None, completed |-> FALSE]
    /\ jobs' = [jobs EXCEPT ![j].pc = "working"]
    /\ UNCHANGED <<generation_status, handler, requests>>

\* run_enrichment records an error: no data file (845), no submissions (853),
\* none matching (885), any exception (926).
RunEnrichmentFail(j) ==
    /\ jobs[j].target = ENRICHMENT /\ jobs[j].pc = "working"
    /\ \E msg \in EnrichmentErrors :
         /\ enrichment_status' = [enrichment_status EXCEPT !.error = msg]
         /\ jobs' = [jobs EXCEPT ![j].pc = "failed", ![j].error = msg]
    /\ UNCHANGED <<generation_status, handler, requests>>

\* run_enrichment, serve_dashboard.py:921
RunEnrichmentComplete(j) ==
    /\ jobs[j].target = ENRICHMENT /\ jobs[j].pc = "working"
    /\ enrichment_status' = [enrichment_status EXCEPT !.completed = TRUE]
    /\ jobs' = [jobs EXCEPT ![j].pc = "completed", ![j].completed = TRUE]
    /\ UNCHANGED <<generation_status, handler, requests>>

\* The finally clause of run_enrichment (931-932), and the thread ends.
RunEnrichmentRelease(j) ==
    /\ jobs[j].target = ENRICHMENT /\ jobs[j].pc \in {"failed", "completed"}
    /\ enrichment_status' = [enrichment_status EXCEPT !.running = FALSE]
    /\ jobs' = [jobs EXCEPT ![j].pc = "finished"]
    /\ UNCHANGED <<generation_status, handler, requests>>

\* Any step of the j-th thread started.
JobStep(j) ==
    /\ j \in 1 .. Len(jobs)
    /\ \/ RunGenerationBegin(j) \/ RunGenerationFail(j)
       \/ RunGenerationComplete(j) \/ RunGenerationRelease(j)
       \/ RunEnrichmentBegin(j) \/ RunEnrichmentFail(j)
       \/ RunEnrichmentComplete(j) \/ RunEnrichmentRelease(j)

DashInit ==
    /\ submission_msg = [ts |-> 0, reactions |-> <<>>, text |-> <<>>]
    /\ thread_messages = <<>>
    /\ result = NoResult
    /\ IdleInit
    /\ NudgeIdle
    /\ DashIdle
    /\ FetchIdle

(***************************************************************************)
(* slack_client.py: SlackAPI.get_thread_messages (slack_client.py:134-186) *)
(***************************************************************************)
\* What one call of conversations.replies can do: return the thread, raise
\* SlackApiError with error ratelimited or with another error, or raise an
\* exception that is none of Slack's (the network is down).
RATELIMITED == "ratelimited"
OTHER_ERROR == "channel_not_found"
NETWORK_DOWN == "URLError"

\* resp["messages"] of a call that succeeds
ThreadLists ==
    {<<>>,
     <<[ts |-> 0, reactions |-> <<>>, text |-> <<>>]>>,
     <<[ts |-> 0, reactions |-> <<>>, text |-> <<>>],
       [ts |-> 1, reactions |-> <<"white_check_mark">>, text |-> <<"onsite">>]>>}

ApiOutcomes ==
    {[kind |-> "ok", messages |-> m] : m \in ThreadLists}
    \cup {[kind |-> k, messages |-> <<>>] : k \in {RATELIMITED, OTHER_ERROR, NETWORK_DOWN}}

\* Mutant of AfterAttempt: the Slack error of the last attempt is raised to
\* the caller.
AfterAttempt_raisesOnLast(f, outcome) ==
    LET logged == [f EXCEPT !.api_log = Append(@, outcome)]
    IN  IF outcome.kind = "ok"
        THEN [logged EXCEPT !.pc = "returned", !.result = outcome.messages]
        ELSE IF outcome.kind = NETWORK_DOWN
        THEN [logged EXCEPT !.pc = "raised", !.exception = NETWORK_DOWN]
        ELSE IF f.attempt < f.max_retries - 1
        THEN [logged EXCEPT !.attempt = @ + 1]
        ELSE [logged EXCEPT !.pc = "raised", !.exception = "SlackApiError"]

\* One turn of the loop over range(max_retries): the call, and what the
\* try statement makes of its outcome.  A wait (time.sleep) precedes the
\* next turn.
AfterAttempt(f, outcome) ==
    LET logged == [f EXCEPT !.api_log = Append(@, outcome)]
    IN  IF outcome.kind = "ok"
        THEN [logged EXCEPT !.pc = "returned", !.result = outcome.messages]
        ELSE IF outcome.kind = NETWORK_DOWN
        THEN [logged EXCEPT !.pc = "raised", !.exception = NETWORK_DOWN]
        ELSE IF outcome.kind = RATELIMITED
        THEN IF f.attempt < f.max_retries - 1
             THEN [logged EXCEPT !.attempt = @ + 1]
             ELSE [logged EXCEPT !.pc = "returned", !.result = <<>>]
        ELSE IF f.attempt = f.max_retries - 1
             THEN [logged EXCEPT !.pc = "returned", !.result = <<>>]
             ELSE [logged EXCEPT !.attempt = @ + 1]

FetchInit ==
    /\ submission_msg = [ts |-> 0, reactions |-> <<>>, text |-> <<>>]
    /\ thread_messages = <<>>
    /\ result = NoResult
    /\ IdleInit
    /\ NudgeIdle
    /\ DashIdle
    /\ \E m \in 0 .. MaxRetries :
         fetch = [NoFetch EXCEPT !.pc = "loop", !.max_retries = m]

\* for attempt in range(max_retries): one more attempt
Attempt ==
    /\ fetch.pc = "loop"
    /\ fetch.attempt < fetch.max_retries
    /\ \E outcome \in ApiOutcomes : fetch' = AfterAttempt(fetch, outcome)

\* The loop ends without a return: the return [] of line 186.
LoopExhausted ==
    /\ fetch.pc = "loop"
    /\ ~(fetch.attempt < fetch.max_retries)
    /\ fetch' = [fetch EXCEPT !.pc = "returned", !.result = <<>>]

Init ==
    /\ ClassifierInit
    /\ IdleInit
    /\ NudgeIdle
    /\ DashIdle
    /\ FetchIdle

Next ==
    \/ PostReply /\ UNCHANGED <<scanVars, synthVars, backendVars, nudgeVars, dashVars, fetchVars>>
    \/ ReactToParent /\ UNCHANGED <<scanVars, synthVars, backendVars, nudgeVars, dashVars, fetchVars>>
    \/ ReactToReply /\ UNCHANGED <<scanVars, synthVars, backendVars, nudgeVars, dashVars, fetchVars>>
    \/ Classify /\ UNCHANGED <<scanVars, synthVars, backendVars, nudgeVars, dashVars, fetchVars>>

Spec == Init /\ [][Next]_vars

\* One scan of build_candidate_submissions over a fetched thread.
ScanSpecInit ==
    /\ ScanInit
    /\ SynthIdle
    /\ NudgeIdle
    /\ DashIdle
    /\ FetchIdle

ScanNext ==
    \/ Tick /\ UNCHANGED <<classifierVars, synthVars, backendVars, nudgeVars, dashVars, fetchVars>>
    \/ BuildCandidate /\ UNCHANGED <<classifierVars, synthVars, backendVars, nudgeVars, dashVars, fetchVars>>

ScanSpec == ScanSpecInit /\ [][ScanNext]_vars

\* One candidate of run_status_check: evidence is gathered, then synthesized.
SynthNext ==
    \/ GatherThread /\ UNCHANGED <<classifierVars, scanVars, backendVars, nudgeVars, dashVars, fetchVars>>
    \/ GatherEmails /\ UNCHANGED <<classifierVars, scanVars, backendVars, nudgeVars, dashVars, fetchVars>>
    \/ GatherEvents /\ UNCHANGED <<classifierVars, scanVars, backendVars, nudgeVars, dashVars, fetchVars>>
    \/ Synthesize /\ UNCHANGED <<classifierVars, scanVars, backendVars, nudgeVars, dashVars, fetchVars>>

SynthSpec == SynthInit /\ [][SynthNext]_vars

\* One candidate synthesized with a reasoning backend configured.
BackendNext ==
    \/ CallClaude /\ UNCHANGED <<classifierVars, scanVars, nudgeVars, dashVars, fetchVars>>
    \/ ClaudeResponds /\ UNCHANGED <<classifierVars, scanVars, nudgeVars, dashVars, fetchVars>>

BackendSpec == BackendInit /\ [][BackendNext]_vars

\* The same, with the steps of the function itself taken whenever they can
\* be: the function passes no timeout to the client, so nothing in it makes
\* messages.create come back.
BackendLiveSpec == BackendSpec /\ WF_vars(CallClaude /\ UNCHANGED <<classifierVars, scanVars, nudgeVars, dashVars, fetchVars>>)

\* Nudge checks run again and again while the clock advances.
NudgeNext ==
    \/ RunNudgeCheck /\ UNCHANGED <<classifierVars, scanVars, synthVars, backendVars, dashVars, fetchVars>>
    \/ Tick /\ UNCHANGED <<classifierVars, synthVars, backendVars, nudgeVars, dashVars, fetchVars>>

NudgeSpec == NudgeInit /\ [][NudgeNext]_vars

\* The dashboard server: requests are served, the jobs they start run.
DashOthers == <<classifierVars, scanVars, synthVars, backendVars, nudgeVars, fetchVars>>

DashNext ==
    \/ HandleApiGenerate /\ UNCHANGED DashOthers
    \/ HandleApiGeneratePost /\ UNCHANGED DashOthers
    \/ HandleApiEnrich /\ UNCHANGED DashOthers
    \/ StartThread /\ UNCHANGED DashOthers
    \/ \E j \in 1 .. Len(jobs) : RunGenerationBegin(j) /\ UNCHANGED DashOthers
    \/ \E j \in 1 .. Len(jobs) : RunGenerationFail(j) /\ UNCHANGED DashOthers
    \/ \E j \in 1 .. Len(jobs) : RunGenerationComplete(j) /\ UNCHANGED DashOthers
    \/ \E j \in 1 .. Len(jobs) : RunGenerationRelease(j) /\ UNCHANGED DashOthers
    \/ \E j \in 1 .. Len(jobs) : RunEnrichmentBegin(j) /\ UNCHANGED DashOthers
    \/ \E j \in 1 .. Len(jobs) : RunEnrichmentFail(j) /\ UNCHANGED DashOthers
    \/ \E j \in 1 .. Len(jobs) : RunEnrichmentComplete(j) /\ UNCHANGED DashOthers
    \/ \E j \in 1 .. Len(jobs) : RunEnrichmentRelease(j) /\ UNCHANGED DashOthers

DashSpec == DashInit /\ [][DashNext]_vars

\* The same, each thread getting to run: the interpreter switches between
\* the threads, and every call a job makes returns or raises.
DashLiveSpec ==
    DashSpec /\ \A j \in 1 .. MaxRequests : WF_vars(JobStep(j) /\ UNCHANGED DashOthers)


\* One call of get_thread_messages.
FetchOthers == <<classifierVars, scanVars, synthVars, backendVars, nudgeVars, dashVars>>

FetchNext ==
    \/ Attempt /\ UNCHANGED FetchOthers
    \/ LoopExhausted /\ UNCHANGED FetchOthers

FetchSpec == FetchInit /\ [][FetchNext]_vars

\* The same, the function going on whenever it can: each call of
\* conversations.replies returns or raises, each wait ends.
FetchLiveSpec == FetchSpec /\ WF_vars(FetchNext)

(***************************************************************************)
(* Properties of the classifier (Spec)                                     *)
(***************************************************************************)
Classified == result # NoResult
Scanned == sub # NoSubmission

HasTag(reactions, tags) == \E i \in 1 .. Len(reactions) : reactions[i] \in tags

ParentHasClosedTag == HasTag(submission_msg.reactions, {"no_entry", "no_entry_sign"})

\* The replies timestamped strictly after the parent.
LaterReplies == {i \in 1 .. Len(thread_messages) : thread_messages[i].ts > submission_msg.ts}

CheckMarkSeen ==
    \/ HasTag(submission_msg.reactions, {"white_check_mark"})
    \/ \E i \in LaterReplies : HasTag(thread_messages[i].reactions, {"white_check_mark"})

NoReactionsAnywhere ==
    /\ submission_msg.reactions = <<>>
    /\ \A i \in 1 .. Len(thread_messages) : thread_messages[i].reactions = <<>>

\* C1: the result is CLOSED exactly when the parent carries no_entry or
\* no_entry_sign, whatever the replies are.
C1_ClosedIffParentTag ==
    Classified => (result.status = CLOSED <=> ParentHasClosedTag)

\* A CLOSED result for a thread with a later reply carrying white_check_mark.
C1_Witness ==
    /\ Classified
    /\ result.status = CLOSED
    /\ \E i \in LaterReplies : HasTag(thread_messages[i].reactions, {"white_check_mark"})

Untexted(msg) == [msg EXCEPT !.text = <<>>]
UntextedThread == [i \in 1 .. Len(thread_messages) |-> Untexted(thread_messages[i])]

\* C3: status and reason are those of the same thread with all texts erased,
\* so two threads that differ only in text are classified alike.
C3_TextNeverMovesStatus ==
    Classified =>
        LET bare == InferStatusForSubmission(Untexted(submission_msg), UntextedThread, 0)
        IN  /\ result.status = bare.status
            /\ result.status_reason = bare.status_reason

\* A classified thread whose parent text holds a closed keyword and a later
\* reply an in-process keyword.
C3_Witness ==
    /\ Classified
    /\ submission_msg.text = <<"declined">>
    /\ \E i \in LaterReplies : thread_messages[i].text = <<"onsite">>
    /\ result.status = IN_PROCESS_UNCLEAR

\* C4: a thread without any reaction is IN_PROCESS_UNCLEAR, with no reason and
\* has_no_parent_reactions set.
C4_NoReactionsUnclear ==
    (Classified /\ NoReactionsAnywhere) =>
        /\ result.status = IN_PROCESS_UNCLEAR
        /\ result.status_reason = None
        /\ result.has_no_parent_reactions = TRUE

\* A classified thread of several replies and no reaction.
C4_Witness ==
    /\ Classified
    /\ NoReactionsAnywhere
    /\ Len(thread_messages) >= 2
    /\ LaterReplies # {}

(***************************************************************************)
(* Properties of the follow-up policy (ScanSpec)                           *)
(***************************************************************************)
\* C5: needs_followup = has_no_parent_reactions OR (status unclear AND
\* days_since_submission >= unclear_followup_days AND days since last activity
\* >= inactivity_days), the day counts being those of the scanned thread.
C5_FollowupRule ==
    Scanned =>
        /\ sub.has_no_parent_reactions = (submission_msg.reactions = <<>>)
        /\ sub.days_since_submission = (now - submission_msg.ts) \div TicksPerDay
        /\ sub.inactivity_days = (now - sub.last_activity_time) \div TicksPerDay
        /\ sub.needs_followup =
             (\/ sub.has_no_parent_reactions
              \/ (/\ sub.status = IN_PROCESS_UNCLEAR
                  /\ sub.days_since_submission >= cfg.unclear_followup_days
                  /\ sub.inactivity_days >= cfg.inactivity_days))

\* Flagged by the day counts alone: the parent has a reaction, both thresholds
\* are positive and exactly met or passed.
C5_Witness ==
    /\ Scanned
    /\ ~sub.has_no_parent_reactions
    /\ sub.status = IN_PROCESS_UNCLEAR
    /\ cfg.unclear_followup_days > 0
    /\ cfg.inactivity_days > 0
    /\ sub.days_since_submission = cfg.unclear_followup_days
    /\ sub.inactivity_days = cfg.inactivity_days
    /\ sub.needs_followup

\* C6 as stated: recent activity alone keeps needs_followup false.
C6_Original ==
    (Scanned /\ sub.inactivity_days < cfg.inactivity_days) => ~sub.needs_followup

\* C6 amended: when the parent carries at least one reaction, recent activity
\* keeps needs_followup false, however old the submission is.
C6_RecentActivityNotFlagged ==
    (Scanned /\ ~sub.has_no_parent_reactions /\ sub.inactivity_days < cfg.inactivity_days)
        => ~sub.needs_followup

\* An old, unclear, reacted-to submission revived by a recent reply.
C6_Witness ==
    /\ Scanned
    /\ ~sub.has_no_parent_reactions
    /\ sub.status = IN_PROCESS_UNCLEAR
    /\ sub.days_since_submission >= cfg.unclear_followup_days
    /\ sub.days_since_submission > sub.inactivity_days
    /\ sub.inactivity_days < cfg.inactivity_days
    /\ ~sub.needs_followup

(***************************************************************************)
(* Properties of the keyword synthesizer (SynthSpec)                       *)
(***************************************************************************)
Synthesized == step = "done"

ActionableTypes == {SIGNAL_ADVANCEMENT, SIGNAL_SCHEDULING, SIGNAL_REJECTION}

HasActionableEmail ==
    \E i \in 1 .. Len(email_signals) : email_signals[i].signal_type \in ActionableTypes

\* Some non-parent chat message has a text that is not the empty string.
HasNonEmptyReply ==
    \E i \in 1 .. Len(slack_thread) :
        ~slack_thread[i].is_parent /\ slack_thread[i].text # <<>>

\* Some non-parent chat message has a text that is more than blanks.
HasNonBlankReply ==
    \E i \in 1 .. Len(slack_thread) :
        /\ ~slack_thread[i].is_parent
        /\ \E j \in 1 .. Len(slack_thread[i].text) : slack_thread[i].text[j] # SP

HasStage ==
    /\ ashby_record # NoRecord
    /\ (ashby_record.pipeline_stage # <<>> \/ ashby_record.currentStage # <<>>)

NoSoftPassAnywhere ==
    /\ \A i \in 1 .. Len(email_signals) :
         ~ContainsAny(Lower(email_signals[i].snippet), SOFT_PASS_KEYWORDS)
    /\ \A i \in 1 .. Len(slack_thread) :
         ~ContainsAny(Lower(slack_thread[i].text), SOFT_PASS_KEYWORDS)

\* The source the cascade must report, a chat reply counting when ChatCounts.
CascadeSource(ChatCounts) ==
    IF calendar_events # <<>> THEN SOURCE_CALENDAR
    ELSE IF HasActionableEmail THEN SOURCE_GMAIL
    ELSE IF ChatCounts THEN SOURCE_SLACK
    ELSE IF HasStage THEN SOURCE_ASHBY
    ELSE SOURCE_NONE

LowAndUnflagged ==
    synthesis.status_source \in {SOURCE_ASHBY, SOURCE_NONE} =>
        synthesis.confidence = CONFIDENCE_LOW /\ synthesis.flag_for_review = FALSE

\* C7 as stated: the source is the first of calendar, email, chat, tracking
\* record, none with usable evidence, a chat reply counting when its text is
\* not empty; ashby and none come with confidence low and no flag.
C7_Original ==
    Synthesized =>
        synthesis.status_source = CascadeSource(HasNonEmptyReply) /\ LowAndUnflagged

\* C7 amended: the same cascade, a chat reply counting when its text is not
\* empty once leading and trailing blanks are stripped.
C7_Cascade ==
    Synthesized =>
        synthesis.status_source = CascadeSource(HasNonBlankReply) /\ LowAndUnflagged

\* No calendar event, no actionable email, only blank or empty replies, a
\* tracking record with a stage: the tracking record answers.
C7_Witness ==
    /\ Synthesized
    /\ calendar_events = <<>>
    /\ email_signals # <<>>
    /\ ~HasActionableEmail
    /\ HasNonEmptyReply
    /\ ~HasNonBlankReply
    /\ HasStage
    /\ synthesis.status_source = SOURCE_ASHBY

HasUpcomingEvent ==
    \E i \in 1 .. Len(calendar_events) : calendar_events[i].is_upcoming

\* C8: with an upcoming calendar event among the events, the result has
\* source calendar and confidence high, whatever emails and chat say.
C8_UpcomingEventWins ==
    (Synthesized /\ HasUpcomingEvent) =>
        /\ synthesis.status_source = SOURCE_CALENDAR
        /\ synthesis.confidence = CONFIDENCE_HIGH

\* An upcoming event beside a rejection email and a chat reply.
C8_Witness ==
    /\ Synthesized
    /\ HasUpcomingEvent
    /\ \E i \in 1 .. Len(email_signals) : email_signals[i].signal_type = SIGNAL_REJECTION
    /\ HasNonBlankReply
    /\ synthesis.status_source = SOURCE_CALENDAR

\* The events the calendar branch may describe: the soonest upcoming ones if
\* any event is upcoming, else the most recent past ones.
MostRelevantEvents ==
    {i \in 1 .. Len(calendar_events) :
        IF HasUpcomingEvent
        THEN /\ calendar_events[i].is_upcoming
             /\ \A j \in 1 .. Len(calendar_events) :
                  calendar_events[j].is_upcoming =>
                      calendar_events[i].start_time <= calendar_events[j].start_time
        ELSE \A j \in 1 .. Len(calendar_events) :
                  calendar_events[i].start_time >= calendar_events[j].start_time}

HasRejectionEmail ==
    \E i \in 1 .. Len(email_signals) : email_signals[i].signal_type = SIGNAL_REJECTION

\* The first actionable email of the newest-first list is a rejection.
NewestActionableIsRejection ==
    \E i \in 1 .. Len(email_signals) :
        /\ email_signals[i].signal_type = SIGNAL_REJECTION
        /\ \A j \in 1 .. (i - 1) : email_signals[j].signal_type \notin ActionableTypes

\* C10 as stated: a rejection email among the signals always flags the result.
C10_Original ==
    (Synthesized /\ HasRejectionEmail) => synthesis.flag_for_review = TRUE

\* C10 amended: without calendar events, a rejection email that is the newest
\* actionable email flags the result, soft-pass phrase or not.
C10_RejectionFlagged ==
    (Synthesized /\ calendar_events = <<>> /\ NewestActionableIsRejection)
        => synthesis.flag_for_review = TRUE

\* A rejection flagged although no text holds a soft-pass phrase.
C10_Witness ==
    /\ Synthesized
    /\ calendar_events = <<>>
    /\ NewestActionableIsRejection
    /\ NoSoftPassAnywhere
    /\ HasNonBlankReply
    /\ synthesis.flag_for_review = TRUE

\* Some supplied email snippet or chat message text, the parent's included,
\* holds a soft-pass phrase.
SoftPassSupplied == ~NoSoftPassAnywhere

\* C11 as stated: a soft-pass phrase in any email snippet or chat message text
\* flags the result, whichever branch produced it.
C11_Original ==
    (Synthesized /\ SoftPassSupplied) => synthesis.flag_for_review = TRUE

\* The result the synthesizer returns for the same thread, emails and events
\* once the tracking record is removed.
WithoutRecord ==
    SynthesizeWithKeywords(NoRecord, slack_thread, email_signals, calendar_events)

\* C12 as stated: with a calendar event, an actionable email or a non-parent
\* reply of non-empty text, the result is the one returned without the
\* tracking record.
C12_Original ==
    (Synthesized /\ (calendar_events # <<>> \/ HasActionableEmail \/ HasNonEmptyReply))
        => synthesis = WithoutRecord

\* C12 amended: with a calendar event, an actionable email or a non-parent
\* reply whose text is not empty once blanks are stripped, the result (source,
\* one-liner, confidence, flag, supporting context) is the one returned
\* without the tracking record.
C12_RecordIrrelevant ==
    (Synthesized /\ (calendar_events # <<>> \/ HasActionableEmail \/ HasNonBlankReply))
        => synthesis = WithoutRecord

\* A tracking record with a stage beside a chat reply only: the chat answers.
C12_Witness ==
    /\ Synthesized
    /\ HasStage
    /\ calendar_events = <<>>
    /\ ~HasActionableEmail
    /\ HasNonBlankReply
    /\ synthesis.status_source = SOURCE_SLACK
    /\ synthesis = WithoutRecord

(***************************************************************************)
(* Properties of the synthesizer with a reasoning backend (BackendSpec)    *)
(***************************************************************************)
\* The generative path failed: the call raised, the response had no content
\* block, or its text was not a JSON object.
BackendFailed ==
    /\ response # NoResponse
    /\ \/ response.kind = "raises"
       \/ /\ response.kind = "message"
          /\ \/ response.content = <<>>
             \/ /\ response.content # <<>>
                /\ LET raw == StripLines(response.content[1].text)
                       body == IF raw # <<>> /\ IsFence(raw[1])
                               THEN StripLines(SelectSeq(raw, LAMBDA l : ~IsFence(l)))
                               ELSE raw
                   IN  body \notin {<<DocFull>>, <<DocPartial>>, <<DocEmpty>>}

\* C13 as stated: with a backend configured no exception reaches the caller,
\* and after any failure of the generative path the result is the keyword
\* synthesizer's for the same inputs.
C13_Original ==
    /\ step # "raised"
    /\ (step = "done" /\ BackendFailed) =>
          synthesis = SynthesizeWithKeywords(ashby_record, slack_thread, email_signals,
                                             calendar_events)

EarlyReplies == {i \in 1 .. Len(thread_messages) : thread_messages[i].ts <= submission_msg.ts}

\* The thread without its i-th message.
ThreadWithout(i) ==
    SubSeq(thread_messages, 1, i - 1) \o SubSeq(thread_messages, i + 1, Len(thread_messages))

\* C15: a reply timestamped at or before the parent changes nothing: status,
\* reason, last_activity and has_no_parent_reactions are those of the thread
\* without that reply, check mark on it or not.
C15_EarlyReplyIgnored ==
    Classified =>
        \A i \in EarlyReplies :
            result = InferStatusForSubmission(submission_msg, ThreadWithout(i), 0)

\* A reply of the parent's own timestamp and one earlier than the parent,
\* each carrying the check mark, in a thread that stays unclear.
C15_Witness ==
    /\ Classified
    /\ \E i, j \in EarlyReplies :
         /\ thread_messages[i].ts = submission_msg.ts
         /\ thread_messages[j].ts < submission_msg.ts
         /\ HasTag(thread_messages[i].reactions, {"white_check_mark"})
         /\ HasTag(thread_messages[j].reactions, {"white_check_mark"})
    /\ result.status = IN_PROCESS_UNCLEAR

\* The latest of the parent's timestamp and those of the replies later than
\* the parent.
LatestActivity ==
    LET times == {submission_msg.ts} \cup {thread_messages[i].ts : i \in LaterReplies}
    IN  CHOOSE t \in times : \A u \in times : u <= t

\* C16: last_activity is the parent's timestamp when the parent carries the
\* CLOSED tag, whatever the replies, and otherwise the latest of the parent's
\* timestamp and those of the replies later than the parent; it is never
\* before the parent's timestamp.
C16_LastActivity ==
    Classified =>
        /\ result.last_activity_time =
             (IF ParentHasClosedTag THEN submission_msg.ts ELSE LatestActivity)
        /\ result.last_activity_time >= submission_msg.ts

\* A closed thread with a later reply: last_activity stays at the parent.
C16_Witness ==
    /\ Classified
    /\ ParentHasClosedTag
    /\ LaterReplies # {}
    /\ EarlyReplies # {}
    /\ result.last_activity_time = submission_msg.ts
    /\ result.last_activity_time < LatestActivity

\* C17: the reason is null exactly when the status is IN_PROCESS_UNCLEAR; a
\* CLOSED result names a closing tag found on the parent, an
\* IN_PROCESS_EXPLICIT result names white_check_mark.
C17_ReasonMatchesStatus ==
    Classified =>
        /\ (result.status_reason = None) <=> (result.status = IN_PROCESS_UNCLEAR)
        /\ result.status = CLOSED =>
             \E i \in 1 .. Len(submission_msg.reactions) :
                /\ submission_msg.reactions[i] \in {"no_entry", "no_entry_sign"}
                /\ result.status_reason = ":" \o submission_msg.reactions[i] \o ":"
        /\ result.status = IN_PROCESS_EXPLICIT => result.status_reason = ":white_check_mark:"

\* A parent carrying the check mark and then no_entry_sign: closed, and the
\* reason is the closing tag.
C17_Witness ==
    /\ Classified
    /\ Len(submission_msg.reactions) >= 2
    /\ submission_msg.reactions[1] = "white_check_mark"
    /\ HasTag(submission_msg.reactions, {"no_entry_sign"})
    /\ result.status = CLOSED
    /\ result.status_reason = ":no_entry_sign:"

\* C18: a call on a thread that was classified before, with the same parent
\* and replies, returns the very result of the earlier call, whatever the
\* clock reading passed to either call.
C18_Pure ==
    [][(/\ Classified
        /\ Classified'
        /\ submission_msg' = submission_msg
        /\ thread_messages' = thread_messages) => result' = result]_vars

\* A classified thread with reactions on the parent and on a later reply,
\* whose result is what any clock reading yields.
C18_Witness ==
    /\ Classified
    /\ submission_msg.reactions # <<>>
    /\ \E i \in LaterReplies : thread_messages[i].reactions # <<>>
    /\ \A t_now \in NowTimes :
         result = InferStatusForSubmission(submission_msg, thread_messages, t_now)

(***************************************************************************)
(* Properties of the nudge check (NudgeSpec)                               *)
(***************************************************************************)
\* The tracker holds the record send_nudge wrote for the i-th thread.
Recorded(i) ==
    \E r \in tracker :
        /\ r.channel_id = threads[i].channel_id
        /\ r.thread_ts = FormatFixed6(threads[i].ts)

\* C19 as stated: while the record of a nudge sent to a thread is in the
\* tracker, no run posts a nudge to that thread again, whatever the
\* timestamp of the submission.
C19_Original ==
    [][\A i \in 1 .. Len(threads) :
          Recorded(i) => threads'[i].nudges = threads[i].nudges]_vars

(***************************************************************************)
(* Further properties of the keyword synthesizer (SynthSpec)               *)
(***************************************************************************)
\* The newest emails of type ADVANCEMENT, SCHEDULING or REJECTION.
NewestActionable ==
    {i \in 1 .. Len(email_signals) :
        /\ email_signals[i].signal_type \in ActionableTypes
        /\ \A j \in 1 .. Len(email_signals) :
             email_signals[j].signal_type \in ActionableTypes
                => email_signals[j].date <= email_signals[i].date}

\* How the one-liner of the email branch begins, by the type of the email.
EmailPhrase(signal_type) ==
    CASE signal_type = SIGNAL_REJECTION ->
            "looks like there may have been a pass - wanted to confirm?"
      [] signal_type = SIGNAL_SCHEDULING ->
            "scheduling in progress - any update on next steps?"
      [] signal_type = SIGNAL_ADVANCEMENT -> "advanced to the next stage as of "

\* C20: without calendar events and with an actionable email, the result is
\* that of a newest email of type ADVANCEMENT, SCHEDULING or REJECTION (its
\* wording, its subject and date), emails of type OTHER being passed over;
\* source gmail, confidence medium, and the flag set when that email is a
\* REJECTION and otherwise only on a soft-pass phrase.
C20_EmailBranch ==
    (Synthesized /\ calendar_events = <<>> /\ HasActionableEmail) =>
        /\ synthesis.status_source = SOURCE_GMAIL
        /\ synthesis.confidence = CONFIDENCE_MEDIUM
        /\ \E i \in NewestActionable :
             /\ synthesis.one_liner[1] = EmailPhrase(email_signals[i].signal_type)
             /\ synthesis.supporting_context =
                  <<"Email: ">> \o email_signals[i].subject
                  \o <<" (", ToString(email_signals[i].date \div TicksPerDay), ")">>
             /\ synthesis.flag_for_review =
                  (email_signals[i].signal_type = SIGNAL_REJECTION \/ SoftPassSupplied)

\* An email of type OTHER newer than every actionable email, whose snippet
\* holds a soft-pass phrase: the older scheduling email answers, and the
\* phrase flags the result.
C20_Witness ==
    /\ Synthesized
    /\ calendar_events = <<>>
    /\ \E i, j \in 1 .. Len(email_signals) :
         /\ email_signals[i].signal_type = SIGNAL_OTHER
         /\ j \in NewestActionable
         /\ email_signals[j].signal_type = SIGNAL_SCHEDULING
         /\ email_signals[i].date > email_signals[j].date
    /\ ~HasRejectionEmail
    /\ synthesis.status_source = SOURCE_GMAIL
    /\ synthesis.one_liner[1] = EmailPhrase(SIGNAL_SCHEDULING)
    /\ synthesis.flag_for_review = TRUE

\* The non-parent replies whose text is more than blanks, and the last of them.
NonBlankReplies ==
    {i \in 1 .. Len(slack_thread) :
        /\ ~slack_thread[i].is_parent
        /\ \E j \in 1 .. Len(slack_thread[i].text) : slack_thread[i].text[j] # SP}

LatestReply == CHOOSE i \in NonBlankReplies : \A j \in NonBlankReplies : j <= i

\* How the one-liner of the chat branch begins, by the category a text falls
\* into: take-home/challenge, phone/technical screen, onsite/loop, generic.
CategoryPhrase(text) ==
    LET lowered == Lower(text)
    IN  IF ContainsAny(lowered, {Phrase(<<"coding", "challenge">>), <<"hackerrank">>,
                                 <<"take-home">>, <<"homework">>})
        THEN "coding challenge sent"
        ELSE IF ContainsAny(lowered, {Phrase(<<"tech", "screen">>),
                                      Phrase(<<"technical", "screen">>),
                                      Phrase(<<"phone", "screen">>)})
        THEN "phone/tech screen completed"
        ELSE IF ContainsAny(lowered, {<<"onsite">>, <<"loop">>, Phrase(<<"final", "round">>)})
        THEN "onsite/loop scheduled"
        ELSE "last activity"

\* C21 as stated: in the chat branch the category of the one-liner is that of
\* the text of the most recent non-parent reply with non-empty text, whatever
\* the parent and the older replies say; source slack, confidence medium.
C21_Original ==
    (Synthesized /\ synthesis.status_source = SOURCE_SLACK) =>
        /\ synthesis.confidence = CONFIDENCE_MEDIUM
        /\ synthesis.one_liner[1] = CategoryPhrase(slack_thread[LatestReply].text)

(***************************************************************************)
(* Further properties of the synthesizer with a reasoning backend          *)
(* (BackendSpec)                                                           *)
(***************************************************************************)
Confidences == {CONFIDENCE_HIGH, CONFIDENCE_MEDIUM, CONFIDENCE_LOW}
Sources == {SOURCE_ASHBY, SOURCE_CALENDAR, SOURCE_GMAIL, SOURCE_SLACK, SOURCE_NONE}

\* C22 as stated: every StatusSynthesis returned has a confidence of high,
\* medium or low, a source of ashby, calendar, gmail, slack or none and a
\* boolean flag, whatever the reasoning backend answered.
C22_Original ==
    step = "done" =>
        /\ synthesis.confidence \in Confidences
        /\ synthesis.status_source \in Sources
        /\ synthesis.flag_for_review \in BOOLEAN

(***************************************************************************)
(* Properties of the dashboard server (DashSpec)                           *)
(***************************************************************************)
\* The run_generation threads started and not yet ended.
GenerationsAlive ==
    {j \in 1 .. Len(jobs) : jobs[j].target = GENERATION /\ jobs[j].pc # "finished"}

\* C23 as stated: two report generations never run at once; a generate
\* request served while a started generation has not ended starts no second
\* run_generation thread, whatever the interleaving.
C23_Original == Cardinality(GenerationsAlive) <= 1

(***************************************************************************)
(* Properties of the background jobs (DashLiveSpec)                        *)
(***************************************************************************)
\* The j-th thread ends with this step.
Ends(j) == jobs[j].pc # "finished" /\ jobs'[j].pc = "finished"

\* C24: every started job ends, and the step it ends with leaves the running
\* flag of its status dict false, after a success as after each recorded
\* error; a run that set completed to true recorded no error.
C24_JobsRelease ==
    /\ \A j \in 1 .. MaxRequests :
         (j <= Len(jobs)) ~> (j <= Len(jobs) /\ jobs[j].pc = "finished")
    /\ [][\A j \in 1 .. Len(jobs) :
            Ends(j) => IF jobs[j].target = GENERATION
                       THEN ~generation_status'.running
                       ELSE ~enrichment_status'.running]_vars
    /\ [](\A j \in 1 .. Len(jobs) : jobs[j].completed => jobs[j].error = None)

\* A generation that recorded an error and an enrichment that completed have
\* both ended, and both flags are false.
C24_Witness ==
    /\ \E j, k \in 1 .. Len(jobs) :
         /\ jobs[j].target = GENERATION /\ jobs[j].pc = "finished"
         /\ jobs[j].error # None /\ ~jobs[j].completed
         /\ jobs[k].target = ENRICHMENT /\ jobs[k].pc = "finished"
         /\ jobs[k].completed /\ jobs[k].error = None
    /\ ~generation_status.running
    /\ ~enrichment_status.running
    /\ generation_status.error # None
    /\ enrichment_status.completed

(***************************************************************************)
(* Properties of the thread fetch (FetchLiveSpec)                          *)
(***************************************************************************)
SlackErrors == {RATELIMITED, OTHER_ERROR}

\* Every attempt made so far failed with a Slack API error.
AllSlackErrors(log) == \A i \in 1 .. Len(log) : log[i].kind \in SlackErrors

RECURSIVE PostedFrom(_)
PostedFrom(i) ==
    IF i > Len(threads) THEN 0
    ELSE (threads'[i].nudges - threads[i].nudges) + PostedFrom(i + 1)

\* Records the tracker holds after the step and did not hold before it.
RecordsAdded == tracker' \ tracker

\* What a run does with the replies it posts: a dry run posts nothing and
\* adds no record, and a run counts in nudges_sent the replies it posted.
PostsCounted ==
    /\ nudge_results'.dry_run => (threads' = threads /\ RecordsAdded = {})
    /\ nudge_results'.nudges_sent = PostedFrom(1)
    /\ \A r \in RecordsAdded :
         \E i \in 1 .. Len(threads) :
            /\ threads'[i].nudges > threads[i].nudges
            /\ r.thread_ts = FormatFixed6(threads[i].ts)

\* C26 as stated: a record is added only for a reply that was posted, a dry
\* run posts nothing and adds no record, and the nudges_sent of a run is the
\* number of records the run added.
C26_Original ==
    [][now' = now =>
         /\ PostsCounted
         /\ nudge_results'.nudges_sent = Cardinality(RecordsAdded)]_vars

(***************************************************************************)
(* Order and growth of the thread (Spec)                                   *)
(***************************************************************************)
\* The lists that hold the messages of s in some order.
Orderings(s) ==
    LET n == Len(s)
        bijections == {f \in [1 .. n -> 1 .. n] : \A i, j \in 1 .. n : f[i] = f[j] => i = j}
    IN  {[i \in 1 .. n |-> s[f[i]]] : f \in bijections}

\* C27: the result does not depend on the order of thread_messages: every
\* ordering of the list, a message of the parent's own timestamp included,
\* yields the same status, reason, last_activity and has_no_parent_reactions.
C27_OrderIndependent ==
    Classified =>
        \A listed \in Orderings(thread_messages) :
            InferStatusForSubmission(submission_msg, listed, 0) = result

\* A list out of time order: a later reply with the check mark listed first,
\* then a message of the parent's timestamp, then a reply in between.
C27_Witness ==
    /\ Classified
    /\ Len(thread_messages) >= 3
    /\ thread_messages[1].ts > thread_messages[3].ts
    /\ thread_messages[3].ts > thread_messages[2].ts
    /\ thread_messages[2].ts = submission_msg.ts
    /\ HasTag(thread_messages[1].reactions, {"white_check_mark"})
    /\ result.status = IN_PROCESS_EXPLICIT
    /\ result.last_activity_time = thread_messages[1].ts

\* The classification of the thread as it stands, and as the step leaves it.
Before == InferStatusForSubmission(submission_msg, thread_messages, 0)
After == InferStatusForSubmission(submission_msg', thread_messages', 0)

\* C28: while the parent and its reactions stay as they are, a reply posted
\* or a reaction put on a reply never takes an IN_PROCESS_EXPLICIT thread back
\* to IN_PROCESS_UNCLEAR, a CLOSED thread stays CLOSED, and last_activity
\* never decreases.
C28_Monotone ==
    [][submission_msg' = submission_msg =>
         /\ Before.status = IN_PROCESS_EXPLICIT => After.status = IN_PROCESS_EXPLICIT
         /\ Before.status = CLOSED => After.status = CLOSED
         /\ After.last_activity_time >= Before.last_activity_time]_vars

\* An explicit thread: the check mark on a later reply only, and a reply
\* without reactions posted after it and later in time.
C28_Witness ==
    /\ Classified
    /\ result.status = IN_PROCESS_EXPLICIT
    /\ ~HasTag(submission_msg.reactions, {"white_check_mark"})
    /\ \E i, j \in LaterReplies :
         /\ i < j
         /\ thread_messages[i].ts < thread_messages[j].ts
         /\ HasTag(thread_messages[i].reactions, {"white_check_mark"})
         /\ thread_messages[j].reactions = <<>>
    /\ result.last_activity_time > submission_msg.ts

(***************************************************************************)
(* Further properties of the follow-up policy (ScanSpec)                   *)
(***************************************************************************)
\* C29: a submission classified CLOSED is never flagged needs_followup,
\* whatever the thread, the clock reading and the thresholds; its parent
\* carries at least one reaction.
C29_ClosedNotFlagged ==
    (Scanned /\ sub.status = CLOSED) =>
        /\ ~sub.needs_followup
        /\ ~sub.has_no_parent_reactions
        /\ submission_msg.reactions # <<>>

\* A closed submission whose day counts meet both thresholds, not flagged.
C29_Witness ==
    /\ Scanned
    /\ sub.status = CLOSED
    /\ cfg.unclear_followup_days > 0
    /\ cfg.inactivity_days > 0
    /\ sub.days_since_submission >= cfg.unclear_followup_days
    /\ sub.inactivity_days >= cfg.inactivity_days
    /\ thread_messages # <<>>
    /\ ~sub.needs_followup

(***************************************************************************)
(* Purging the nudge records (NudgeSpec)                                   *)
(***************************************************************************)
\* The record r is in the tracker before the step and its key is gone after.
Purged(r) == r \in tracker /\ \A q \in tracker' : q.key # r.key

\* The i-th thread starts before the scan window of a check run now.
OutOfWindow(i) == threads[i].ts.tick < now - cfg.lookback_days * TicksPerDay

\* C30: a record is purged only when it is more than lookback_days days old,
\* and the submission it records is then older than the scan window; a thread
\* that was nudged and whose record is gone is never nudged again, however
\* many checks follow as the clock advances.
C30_PurgeKeepsQuiet ==
    [][/\ \A r \in tracker :
            Purged(r) =>
               /\ Days(now, r.nudged_at) > cfg.lookback_days
               /\ \A i \in 1 .. Len(threads) :
                    (r.channel_id = threads[i].channel_id
                     /\ r.thread_ts = FormatFixed6(threads[i].ts)) => OutOfWindow(i)
       /\ \A i \in 1 .. Len(threads) :
            (threads[i].nudges > 0 /\ ~Recorded(i)) =>
                threads'[i].nudges = threads[i].nudges]_vars

\* After a purge: an unclear thread that was nudged once, its record gone,
\* and a check that found nothing to scan.
C30_Witness ==
    /\ nudge_results # NoRun
    /\ nudge_results.dry_run = FALSE
    /\ nudge_results.submissions_checked = 0
    /\ tracker = {}
    /\ \E i \in 1 .. Len(threads) :
         /\ threads[i].status = IN_PROCESS_UNCLEAR
         /\ threads[i].ts.micros # 0
         /\ threads[i].nudges = 1
         /\ ~Recorded(i)
         /\ OutOfWindow(i)

====
